---- MODULE Spec2Model ----
(***************************************************************************)
(* Webhook relay of MS_SDR_FIX: POST /webhook/:secretId resolves the       *)
(* tenant's destination (cache -> ENV -> repository), extracts the event   *)
(* payload from the body, drops group/broadcast events and forwards the    *)
(* original body to the destination.                                       *)
(*                                                                         *)
(* A Go string is modelled as a sequence of one-character strings, so      *)
(* that strings.ToLower, strings.Contains, strings.TrimSpace and           *)
(* json.Unmarshal are computed character by character.  The destination    *)
(* URLs and the "CLIENT_" prefix are kept as one element each: the code    *)
(* never looks inside them.                                                *)
(***************************************************************************)
EXTENDS Integers, Sequences, FiniteSets, TLC

(***************************************************************************)
(* package strings                                                         *)
(***************************************************************************)
Uppers == <<"A","B","C","D","E","F","G","H","I","J","K","L","M",
            "N","O","P","Q","R","S","T","U","V","W","X","Y","Z">>
Lowers == <<"a","b","c","d","e","f","g","h","i","j","k","l","m",
            "n","o","p","q","r","s","t","u","v","w","x","y","z">>

LowerMap == [c \in {Uppers[i] : i \in 1..26} |->
                Lowers[CHOOSE i \in 1..26 : Uppers[i] = c]]
UpperMap == [c \in {Lowers[i] : i \in 1..26} |->
                Uppers[CHOOSE i \in 1..26 : Lowers[i] = c]]

LowerChar(c) == IF c \in DOMAIN LowerMap THEN LowerMap[c] ELSE c
UpperChar(c) == IF c \in DOMAIN UpperMap THEN UpperMap[c] ELSE c

ToLower(s) == [i \in 1..Len(s) |-> LowerChar(s[i])]
ToUpper(s) == [i \in 1..Len(s) |-> UpperChar(s[i])]

\* the white space strings.TrimSpace strips (of the characters in use)
Space == {" ", "\n", "\r", "\t"}

Min(S) == CHOOSE x \in S : \A y \in S : x <= y
Max(S) == CHOOSE x \in S : \A y \in S : x >= y

\* from the first to the last character that is not white space
TrimSpace(s) ==
    LET ink == {i \in 1..Len(s) : s[i] \notin Space} IN
    IF ink = {} THEN <<>> ELSE SubSeq(s, Min(ink), Max(ink))

HasPrefix(s, p) == Len(s) >= Len(p) /\ SubSeq(s, 1, Len(p)) = p
HasSuffix(s, p) ==
    Len(s) >= Len(p) /\ SubSeq(s, Len(s) - Len(p) + 1, Len(s)) = p

Contains(s, sub) ==
    \E i \in 1..(Len(s) - Len(sub) + 1) : SubSeq(s, i, i + Len(sub) - 1) = sub

EqualFold(a, b) == ToLower(a) = ToLower(b)

\* strings.ReplaceAll for a one-character pattern
ReplaceAll(s, old, new) == [i \in 1..Len(s) |-> IF s[i] = old THEN new ELSE s[i]]

\* strings.Map dropping ' ', '\n', '\r', '\t' (router, raw filter)
NotSpace(c) == c \notin Space
DropSpace(s) == SelectSeq(s, NotSpace)

(***************************************************************************)
(* encoding/json: values, the decoder and the encoder of string literals.  *)
(* A value is [t, s, b, m]: t its kind, s the characters of a string or    *)
(* number, b a boolean, m the members <<[k, v], ...>> of an object in      *)
(* document order.                                                         *)
(***************************************************************************)
JStr(s)  == [t |-> "str",  s |-> s,    b |-> FALSE, m |-> <<>>]
JNum(s)  == [t |-> "num",  s |-> s,    b |-> FALSE, m |-> <<>>]
JBool(b) == [t |-> "bool", s |-> <<>>, b |-> b,     m |-> <<>>]
JNull    == [t |-> "null", s |-> <<>>, b |-> FALSE, m |-> <<>>]
JObj(m)  == [t |-> "obj",  s |-> <<>>, b |-> FALSE, m |-> m]

Digits == {"0","1","2","3","4","5","6","7","8","9"}

ParseFail == [ok |-> FALSE, v |-> JNull, next |-> 0]
Parsed(v, next) == [ok |-> TRUE, v |-> v, next |-> next]

\* the index of the first character at or after i that is not white space
SkipSpace(s, i) ==
    LET ink == {j \in i..Len(s) : s[j] \notin Space} IN
    IF ink = {} THEN Len(s) + 1 ELSE Min(ink)

\* the number of backslashes that end right before s[j], from lo on
BackslashRun(s, lo, j) ==
    LET other == {k \in lo..(j-1) : s[k] # "\\"} IN
    IF other = {} THEN j - lo ELSE j - 1 - Max(other)

\* s[j] is the character a backslash escapes
IsEscaped(s, lo, j) == BackslashRun(s, lo, j) % 2 = 1

Unescape(c) ==
    IF c = "n" THEN "\n" ELSE IF c = "r" THEN "\r" ELSE IF c = "t" THEN "\t" ELSE c

\* a string literal whose opening quote is s[lo - 1]: it ends at the first
\* quote no backslash escapes (0: there is none)
ClosingQuote(s, lo) ==
    LET quotes == {j \in lo..Len(s) : s[j] = "\"" /\ ~IsEscaped(s, lo, j)} IN
    IF quotes = {} THEN 0 ELSE Min(quotes)

\* the characters at the indexes at, escapes decoded
DecodeAt(s, lo, at) ==
    [k \in 1..Len(at) |->
        IF IsEscaped(s, lo, at[k]) THEN Unescape(s[at[k]]) ELSE s[at[k]]]

\* control characters and unknown escapes fail
StringUpTo(s, lo, close) ==
    LET Kept(j) == IsEscaped(s, lo, j) \/ s[j] # "\\" IN
    IF close = 0 THEN ParseFail
    ELSE IF \E j \in lo..(close - 1) :
              \/ s[j] \in {"\n", "\r", "\t"}
              \/ IsEscaped(s, lo, j)
                 /\ s[j] \notin {"\"", "\\", "/", "n", "r", "t"}
         THEN ParseFail
    ELSE Parsed(JStr(DecodeAt(s, lo,
                    SelectSeq([k \in 1..(close - lo) |-> lo + k - 1], Kept))),
                close + 1)

ParseString(s, lo) == StringUpTo(s, lo, ClosingQuote(s, lo))

\* the digits from s[i] on
DigitsUpTo(s, i, stop) == Parsed(JNum(SubSeq(s, i, stop - 1)), stop)
ParseDigits(s, i) ==
    DigitsUpTo(s, i, Min({j \in i..(Len(s) + 1) :
                            j = Len(s) + 1 \/ s[j] \notin Digits}))

ParseLiteral(s, i, word, v) ==
    IF Len(s) >= i + Len(word) - 1 /\ SubSeq(s, i, i + Len(word) - 1) = word
    THEN Parsed(v, i + Len(word)) ELSE ParseFail

RECURSIVE ParseValue(_, _)
RECURSIVE ParseMembers(_, _, _)

\* after a member: "}" ends the object, "," announces the next member
MemberEnd(s, e, mem) ==
    IF e > Len(s) THEN ParseFail
    ELSE IF s[e] = "}" THEN Parsed(JObj(mem), e + 1)
    ELSE IF s[e] = "," THEN ParseMembers(s, e + 1, mem)
    ELSE ParseFail

MemberValue(s, k, v, acc) ==
    IF ~v.ok THEN ParseFail
    ELSE MemberEnd(s, SkipSpace(s, v.next), Append(acc, [k |-> k.v.s, v |-> v.v]))

MemberColon(s, k, c, acc) ==
    IF c > Len(s) \/ s[c] # ":" THEN ParseFail
    ELSE MemberValue(s, k, ParseValue(s, c + 1), acc)

MemberKey(s, k, acc) ==
    IF ~k.ok THEN ParseFail ELSE MemberColon(s, k, SkipSpace(s, k.next), acc)

\* "key" : value { , "key" : value } "}"
MembersAt(s, i, acc) ==
    IF i > Len(s) \/ s[i] # "\"" THEN ParseFail
    ELSE MemberKey(s, ParseString(s, i + 1), acc)

ParseMembers(s, i0, acc) == MembersAt(s, SkipSpace(s, i0), acc)

ObjectAt(s, j) ==
    IF j <= Len(s) /\ s[j] = "}" THEN Parsed(JObj(<<>>), j + 1)
    ELSE MembersAt(s, j, <<>>)

ValueAt(s, i) ==
    IF i > Len(s) THEN ParseFail
    ELSE IF s[i] = "\"" THEN ParseString(s, i + 1)
    ELSE IF s[i] = "{" THEN ObjectAt(s, SkipSpace(s, i + 1))
    ELSE IF s[i] = "t" THEN ParseLiteral(s, i, <<"t","r","u","e">>, JBool(TRUE))
    ELSE IF s[i] = "f" THEN ParseLiteral(s, i, <<"f","a","l","s","e">>, JBool(FALSE))
    ELSE IF s[i] = "n" THEN ParseLiteral(s, i, <<"n","u","l","l">>, JNull)
    ELSE IF s[i] \in Digits THEN ParseDigits(s, i)
    ELSE ParseFail

ParseValue(s, i0) == ValueAt(s, SkipSpace(s, i0))

\* a whole document: one value and nothing but white space after it
WholeDocument(s, r) ==
    IF r.ok /\ SkipSpace(s, r.next) = Len(s) + 1 THEN r ELSE ParseFail

ParseJSON(s) == WholeDocument(s, ParseValue(s, 1))

\* a Go map built from an object: the last member of a key wins
HasKey(m, key) == \E i \in 1..Len(m) : m[i].k = key
Lookup(m, key) ==
    m[CHOOSE i \in 1..Len(m) :
        m[i].k = key /\ \A j \in (i+1)..Len(m) : m[j].k # key].v

\* the keys of a Go map: each key once
MapKeys(m) == {m[i].k : i \in 1..Len(m)}

\* json.Unmarshal into map[string]any
MapOf(r) ==
    IF r.ok /\ r.v.t \in {"obj", "null"}
    THEN [ok |-> TRUE, m |-> r.v.m] ELSE [ok |-> FALSE, m |-> <<>>]

UnmarshalMap(s) == MapOf(ParseJSON(s))

\* the encoding of a string literal: quotes and backslashes escaped
EscapeChar(c) ==
    IF c \in {"\"", "\\"} THEN <<"\\", c>>
    ELSE IF c = "\n" THEN <<"\\", "n">> ELSE <<c>>

RECURSIVE EscapeRange(_, _, _)
EscapeRange(s, lo, hi) ==
    IF lo > hi THEN <<>>
    ELSE IF lo = hi THEN EscapeChar(s[lo])
    ELSE EscapeRange(s, lo, (lo + hi) \div 2)
         \o EscapeRange(s, (lo + hi) \div 2 + 1, hi)

Quote(s) == <<"\"">> \o EscapeRange(s, 1, Len(s)) \o <<"\"">>

(***************************************************************************)
(* The literals of the code.                                               *)
(***************************************************************************)
kJsonData == <<"j","s","o","n","D","a","t","a">>
kBody     == <<"b","o","d","y">>
kEvent    == <<"e","v","e","n","t">>
kInfo     == <<"I","n","f","o">>
kMessage  == <<"M","e","s","s","a","g","e">>
kIsGroup  == <<"I","s","G","r","o","u","p">>
kChat     == <<"C","h","a","t">>
kSender   == <<"S","e","n","d","e","r">>
kSKDM     == <<"s","e","n","d","e","r","K","e","y","D","i","s","t","r","i","b",
               "u","t","i","o","n","M","e","s","s","a","g","e">>
kGroupID  == <<"g","r","o","u","p","I","D">>
kTrue     == <<"t","r","u","e">>
kGUs      == <<"@","g",".","u","s">>
kBroadcast == <<"@","b","r","o","a","d","c","a","s","t">>
kStatusBroadcast == <<"s","t","a","t","u","s">> \o kBroadcast
\* "isgroup":true and \"isgroup\":true
kIsGroupTrue ==
    <<"\"","i","s","g","r","o","u","p","\"",":","t","r","u","e">>
kIsGroupTrueEscaped ==
    <<"\\","\"","i","s","g","r","o","u","p","\\","\"",":","t","r","u","e">>

ctJSON      == <<"a","p","p","l","i","c","a","t","i","o","n","/","j","s","o","n">>
ctMultipart == <<"m","u","l","t","i","p","a","r","t","/",
                 "f","o","r","m","-","d","a","t","a">>
ctForm      == <<"a","p","p","l","i","c","a","t","i","o","n","/","x","-","w","w","w",
                 "-","f","o","r","m","-","u","r","l","e","n","c","o","d","e","d">>

(***************************************************************************)
(* net/http forms.  A query string or urlencoded body is key=value pairs   *)
(* joined by "&", "+" standing for a space.  A multipart body is a         *)
(* sequence of parts <<PartOpen, name..., PartSep, value...>> closed by    *)
(* PartClose; the three markers stand for the boundary and header lines.   *)
(***************************************************************************)
PartOpen  == "--boundary\r\nContent-Disposition: form-data; name=\""
PartSep   == "\"\r\n\r\n"
PartClose == "\r\n--boundary--\r\n"

\* the index of the first x in s at or after i, Len(s) + 1 when there is none
IndexFrom(s, x, i) ==
    LET hits == {j \in i..Len(s) : s[j] = x} IN
    IF hits = {} THEN Len(s) + 1 ELSE Min(hits)

Unplus(s) == ReplaceAll(s, "+", " ")

\* url.ParseQuery: the pairs in order
RECURSIVE ParseQuery(_)
ParseQuery(s) ==
    IF s = <<>> THEN <<>>
    ELSE LET amp  == IndexFrom(s, "&", 1)
             pair == SubSeq(s, 1, amp - 1)
             rest == SubSeq(s, amp + 1, Len(s))
             eq   == IndexFrom(pair, "=", 1)
         IN (IF pair = <<>> THEN <<>>
             ELSE <<[k |-> Unplus(SubSeq(pair, 1, eq - 1)),
                     v |-> JStr(Unplus(SubSeq(pair, eq + 1, Len(pair))))]>>)
            \o ParseQuery(rest)

\* multipart.Reader.ReadForm: the value fields in order
RECURSIVE ParseMultipart(_)
ParseMultipart(s) ==
    IF s = <<>> \/ Head(s) # PartOpen THEN <<>>
    ELSE LET sep  == IndexFrom(s, PartSep, 2)
             nxt  == IndexFrom(s, PartOpen, 2)
             cls  == IndexFrom(s, PartClose, 2)
             stop == IF nxt < cls THEN nxt ELSE cls
         IN IF sep >= stop \/ cls > Len(s) THEN <<>>
            ELSE <<[k |-> SubSeq(s, 2, sep - 1),
                    v |-> JStr(SubSeq(s, sep + 1, stop - 1))]>>
                 \o ParseMultipart(SubSeq(s, stop, Len(s)))

\* Request.FormValue: the first value of the key, "" when there is none
FirstValue(pairs, key) ==
    IF \E i \in 1..Len(pairs) : pairs[i].k = key
    THEN pairs[CHOOSE i \in 1..Len(pairs) :
            pairs[i].k = key /\ \A j \in 1..(i-1) : pairs[j].k # key].v.s
    ELSE <<>>

\* mime.ParseMediaType: the media type, lower-cased, without parameters
MediaType(ct) == TrimSpace(ToLower(SubSeq(ct, 1, IndexFrom(ct, ";", 1) - 1)))

\* Request.ParseForm then FormValue: body pairs come before the query's,
\* and the body is read as a form only under the urlencoded media type
FormValueURLEncoded(ct, body, query, key) ==
    FirstValue((IF MediaType(ct) = ctForm THEN ParseQuery(body) ELSE <<>>)
               \o ParseQuery(query), key)

\* Request.ParseMultipartForm then FormValue
FormValueMultipart(ct, body, query, key) ==
    FirstValue((IF MediaType(ct) = ctMultipart THEN ParseMultipart(body) ELSE <<>>)
               \o ParseQuery(query), key)

(***************************************************************************)
(* router: the payload extraction of the webhook handler.                  *)
(* `for key, value := range body` visits the entries in an order Go        *)
(* leaves unspecified and stops at the first that matches, so the loop     *)
(* may end with the candidate of any matching entry.                       *)
(***************************************************************************)
\* v, ok := value.(string); ok && strings.TrimSpace(v) != ""
UsableValue(v) == v.t = "str" /\ TrimSpace(v.s) # <<>>
IsUsableString(m, key) == HasKey(m, key) /\ UsableValue(Lookup(m, key))

IsJSONKey(key) == HasPrefix(key, <<"{">>) /\ HasSuffix(key, <<"}">>)
IsJSONValue(v) == v.t = "str" /\ HasPrefix(v.s, <<"{">>)

\* what the loop leaves in jsonDataStr when it stops at the entry
ScanCandidate(key, v) == IF IsJSONKey(key) THEN key ELSE v.s

BodyScanCandidates(body) ==
    { ScanCandidate(key, Lookup(body, key)) :
        key \in { k \in MapKeys(body) :
                    IsJSONKey(k) \/ IsJSONValue(Lookup(body, k)) } }

\* the fallback after the loop: body["jsonData"], else the whole body
AfterBodyScan(bodyTrim, body, found) ==
    IF found # {} THEN found
    ELSE IF IsUsableString(body, kJsonData) THEN {Lookup(body, kJsonData).s}
    ELSE {bodyTrim}

\* else if body, ok := m["body"].(map[string]interface{}); ok
FromBody(bodyTrim, v) ==
    IF v.t = "obj" THEN AfterBodyScan(bodyTrim, v.m, BodyScanCandidates(v.m))
    ELSE {bodyTrim}

\* m["body"] looked at before m["jsonData"]
FromEnvelope_BodyFirst(bodyTrim, u) ==
    IF bodyTrim = <<>> THEN {<<>>}
    ELSE IF ~u.ok THEN {bodyTrim}
    ELSE IF HasKey(u.m, kBody) THEN FromBody(bodyTrim, Lookup(u.m, kBody))
    ELSE IF IsUsableString(u.m, kJsonData) THEN {Lookup(u.m, kJsonData).s}
    ELSE {bodyTrim}

FromEnvelope(bodyTrim, u) ==
    IF bodyTrim = <<>> THEN {<<>>}
    ELSE IF ~u.ok THEN {bodyTrim}
    ELSE IF IsUsableString(u.m, kJsonData) THEN {Lookup(u.m, kJsonData).s}
    ELSE IF HasKey(u.m, kBody) THEN FromBody(bodyTrim, Lookup(u.m, kBody))
    ELSE {bodyTrim}

\* case strings.HasPrefix(ctLower, "application/json")
ExtractFromJSON(bodyBytes) ==
    FromEnvelope(TrimSpace(bodyBytes), UnmarshalMap(bodyBytes))

\* the switch on ctLower: the values jsonDataStr may end with
PayloadBy(ctLower, contentType, bodyBytes, query) ==
    IF HasPrefix(ctLower, ctJSON) THEN ExtractFromJSON(bodyBytes)
    ELSE IF HasPrefix(ctLower, ctMultipart)
         THEN {FormValueMultipart(contentType, bodyBytes, query, kJsonData)}
    ELSE {FormValueURLEncoded(contentType, bodyBytes, query, kJsonData)}

ExtractPayload(contentType, bodyBytes, query) ==
    PayloadBy(ToLower(contentType), contentType, bodyBytes, query)

\* the filter on the raw payload: rawLower, rawCompact and the five matches
RawMatches(rawLower, rawCompact) ==
    \/ Contains(rawLower, kGUs)
    \/ Contains(rawLower, kBroadcast)
    \/ Contains(rawLower, kStatusBroadcast)
    \/ Contains(rawCompact, kIsGroupTrue)
    \/ Contains(rawCompact, kIsGroupTrueEscaped)

\* the matches on the payload as received, not lower-cased
RawFilterMatch_NoFold(jsonDataStr) ==
    RawMatches(jsonDataStr, DropSpace(jsonDataStr))

RawFilterMatch(jsonDataStr) ==
    RawMatches(ToLower(jsonDataStr), DropSpace(ToLower(jsonDataStr)))

\* what the handler decides and logs about the payload
RawClassify(jsonDataStr) ==
    IF RawFilterMatch(jsonDataStr)
    THEN [isGroup |-> TRUE,  reason |-> "filter_raw_match"]
    ELSE [isGroup |-> FALSE, reason |-> ""]

(***************************************************************************)
(* webhook: ExtractEventInfo.  json.Unmarshal into jsonDataEnvelope        *)
(* matches the struct fields event, Info, Message without regard to case   *)
(* and fails when one of them holds anything but an object or null.        *)
(***************************************************************************)
FieldKeys(m, name) == {i \in 1..Len(m) : EqualFold(m[i].k, name)}
FieldTypeOK(m, name) == \A i \in FieldKeys(m, name) : m[i].v.t \in {"obj", "null"}
\* the members decoded into the field: none when it is absent or null
LastOf(m, keys) == IF keys = {} THEN <<>> ELSE m[Max(keys)].v.m
Field(m, name) == LastOf(m, FieldKeys(m, name))

EnvelopeFields(event) ==
    [ok |-> TRUE, Info |-> Field(event, kInfo), Message |-> Field(event, kMessage)]

EnvelopeOf(r) ==
    IF /\ r.ok /\ r.v.t \in {"obj", "null"}
       /\ FieldTypeOK(r.v.m, kEvent)
       /\ \A i \in FieldKeys(r.v.m, kEvent) :
             FieldTypeOK(r.v.m[i].v.m, kInfo) /\ FieldTypeOK(r.v.m[i].v.m, kMessage)
    THEN EnvelopeFields(Field(r.v.m, kEvent))
    ELSE [ok |-> FALSE, Info |-> <<>>, Message |-> <<>>]

UnmarshalEnvelope(s) == EnvelopeOf(ParseJSON(s))

StringOf(v) == IF v.t = "str" THEN v.s ELSE <<>>
StringAt(m, key) == IF HasKey(m, key) THEN StringOf(Lookup(m, key)) ELSE <<>>

MembersOf(v) == IF v.t = "obj" THEN v.m ELSE <<>>
MapAt(m, key) == IF HasKey(m, key) THEN MembersOf(Lookup(m, key)) ELSE <<>>

\* switch t := v.(type) on Info["IsGroup"]
FlagOf(v) ==
    IF v.t = "bool" THEN v.b
    ELSE IF v.t = "str" THEN EqualFold(TrimSpace(v.s), kTrue)
    ELSE FALSE
IsGroupFlag(info) == HasKey(info, kIsGroup) /\ FlagOf(Lookup(info, kIsGroup))

IsBroadcastID(lower) ==
    Contains(lower, kBroadcast) \/ Contains(lower, kStatusBroadcast)

\* the first of the four rules that fires names the reason
Classified(flag, byChat, byStatus, byGid, chat, sender) ==
    [isGroup |-> flag \/ byChat \/ byStatus \/ byGid,
     chat    |-> chat,
     sender  |-> sender,
     reason  |-> IF flag THEN "is_group_true"
                 ELSE IF byChat THEN "chat_has_g_us"
                 ELSE IF byStatus THEN "chat_status_broadcast"
                 ELSE IF byGid THEN "message_group_id_broadcast"
                 ELSE ""]

ByIDs(flag, lowerChat, lowerGid, chat, sender) ==
    Classified(flag, Contains(lowerChat, kGUs), IsBroadcastID(lowerChat),
               IsBroadcastID(lowerGid) \/ Contains(lowerGid, kGUs), chat, sender)

ByFields(flag, chat, sender, gid) ==
    ByIDs(flag, ToLower(chat), ToLower(gid), chat, sender)

InfoOf(env) ==
    IF ~env.ok
    THEN [isGroup |-> FALSE, chat |-> <<>>, sender |-> <<>>,
          reason |-> "json_parse_failed"]
    ELSE ByFields(IsGroupFlag(env.Info), StringAt(env.Info, kChat),
                  StringAt(env.Info, kSender),
                  StringAt(MapAt(env.Message, kSKDM), kGroupID))

ExtractEventInfo(jsonDataStr) == InfoOf(UnmarshalEnvelope(jsonDataStr))

(***************************************************************************)
(* The requests the handlers are driven with.                              *)
(***************************************************************************)
\* {"key":value} and {"key":value,"key2":value2}, value given as JSON text
Obj1(k, v) == <<"{">> \o Quote(k) \o <<":">> \o v \o <<"}">>
Obj2(k1, v1, k2, v2) ==
    <<"{">> \o Quote(k1) \o <<":">> \o v1 \o <<",">>
            \o Quote(k2) \o <<":">> \o v2 \o <<"}">>
\* {"event":{"Info":{key:value}}}
InfoEvent(k, v) == Obj1(kEvent, Obj1(kInfo, Obj1(k, v)))

idUser      == <<"5","@","c",".","u","s">>
idGroup     == <<"5","@","g",".","u","s">>
idGroupUp   == <<"5","@","G",".","U","S">>
idStatus    == kStatusBroadcast
evUser        == InfoEvent(kChat, Quote(idUser))
evGroupChat   == InfoEvent(kChat, Quote(idGroupUp))
evStatus      == InfoEvent(kChat, Quote(idStatus))
evIsGroupBool == InfoEvent(kIsGroup, <<" ">> \o kTrue)
evIsGroupStr  == InfoEvent(kIsGroup, Quote(kTrue))
evGroupID     ==
    Obj1(kEvent, Obj1(kMessage, Obj1(kSKDM, Obj1(kGroupID, Quote(idGroup)))))
evNotJSON     == <<"h","i"," ">> \o idGroup
evSpaced      == <<"5","@","g"," ",".","u","s">>
keyJSON       == Obj1(<<"a">>, <<"1">>)

jsonDataEq == kJsonData \o <<"=">>

Request(ct, body, query, readErr) ==
    [contentType |-> ct, body |-> body, query |-> query, readErr |-> readErr]

Inputs == <<
    \*  1..8: application/json, envelope {"jsonData":"<event>"}
    Request(ctJSON, Obj1(kJsonData, Quote(evUser)), <<>>, FALSE),
    Request(ctJSON, Obj1(kJsonData, Quote(evGroupChat)), <<>>, FALSE),
    Request(ctJSON, Obj1(kJsonData, Quote(evStatus)), <<>>, FALSE),
    Request(ctJSON, Obj1(kJsonData, Quote(evIsGroupBool)), <<>>, FALSE),
    Request(ctJSON, Obj1(kJsonData, Quote(evIsGroupStr)), <<>>, FALSE),
    Request(ctJSON, Obj1(kJsonData, Quote(evGroupID)), <<>>, FALSE),
    Request(ctJSON, Obj1(kJsonData, Quote(evNotJSON)), <<>>, FALSE),
    Request(ctJSON, Obj1(kJsonData, Quote(evSpaced)), <<>>, FALSE),
    \*  9..12: application/json, no usable jsonData
    Request(ctJSON \o <<";"," ","c","h","a","r","s","e","t","=","u","t","f","-","8">>,
            <<" ">> \o evUser \o <<"\n">>, <<>>, FALSE),
    Request(ctJSON, Obj1(kJsonData, Quote(<<" ">>)), <<>>, FALSE),
    Request(ctJSON, <<" ", "\n">>, <<>>, FALSE),
    Request(ctJSON, <<>>, <<>>, FALSE),
    \* 13..16: application/json, body envelope
    Request(ctJSON, Obj1(kBody, Obj1(keyJSON, Quote(<<"x">>))), <<>>, FALSE),
    Request(ctJSON, Obj1(kBody, Obj2(keyJSON, Quote(<<"x">>),
                                     <<"k">>, Quote(evUser))), <<>>, FALSE),
    Request(ctJSON, Obj1(kBody, Obj1(kJsonData, Quote(<<"h","i">>))), <<>>, FALSE),
    Request(ctJSON, Obj2(kJsonData, Quote(evUser),
                         kBody, Obj1(keyJSON, Quote(<<"x">>))), <<>>, FALSE),
    \* 17..20: urlencoded and other types
    Request(ctForm, jsonDataEq \o evUser, <<>>, FALSE),
    Request(ctForm, <<"x","=","1">>, <<>>, FALSE),
    Request(ctForm, jsonDataEq \o <<"+">>, <<>>, FALSE),
    Request(<<"t","e","x","t","/","p","l","a","i","n">>,
            jsonDataEq \o evUser, <<>>, FALSE),
    \* 21..22: no Content-Type, the payload in the query string
    Request(<<>>, <<"r","a","w">>, jsonDataEq \o evUser, FALSE),
    Request(<<>>, <<"r","a","w">>, jsonDataEq \o idGroup, FALSE),
    \* 23..24: multipart/form-data
    Request(ctMultipart \o <<";", " boundary=boundary">>,
            <<PartOpen>> \o kJsonData \o <<PartSep>> \o evUser
                \o <<PartClose>>, <<>>, FALSE),
    Request(ctMultipart \o <<";", " boundary=boundary">>,
            <<PartOpen>> \o <<"x">> \o <<PartSep>> \o evUser
                \o <<PartClose>>, <<>>, FALSE),
    \* 25: the body cannot be read
    Request(ctJSON, Obj1(kJsonData, Quote(evUser)), <<>>, TRUE)
  >>

PipelineInputs == {Inputs[i] : i \in DOMAIN Inputs}

\* the request the concurrent runs are driven with: jsonData=hi
SmallInputs == {Request(ctForm, jsonDataEq \o <<"h","i">>, <<>>, FALSE)}

(***************************************************************************)
(* Generated requests: every event string over EventAlphabet of at most    *)
(* MaxLen characters in a {"jsonData": E} envelope, and chat identifiers   *)
(* spelling @g.us in each case with at most MaxGaps white-space            *)
(* characters inserted.                                                    *)
(***************************************************************************)
MaxLen == 2
MaxGaps == 1

EventAlphabet == {" ", "x", "\"", "\\", "{"}

RECURSIVE StringsUpTo(_, _)
StringsUpTo(A, n) ==
    IF n = 0 THEN {<<>>}
    ELSE StringsUpTo(A, n - 1)
         \cup {Append(s, c) : s \in StringsUpTo(A, n - 1), c \in A}

Events == StringsUpTo(EventAlphabet, MaxLen)

bodyWithKey == Obj1(keyJSON, Quote(<<"x">>))

\* the bodies that hold the top-level string field jsonData = E
JsonDataCases ==
    {[E |-> e, body |-> Obj1(kJsonData, Quote(e))] : e \in Events}
    \cup {[E |-> e, body |-> Obj2(kJsonData, Quote(e), kBody, bodyWithKey)] :
            e \in Events}
    \cup {[E |-> e, body |-> Obj2(kBody, bodyWithKey, kJsonData, Quote(e))] :
            e \in Events}

InsertAt(s, i, c) == SubSeq(s, 1, i) \o <<c>> \o SubSeq(s, i + 1, Len(s))

RECURSIVE Spaced(_, _)
Spaced(S, n) ==
    IF n = 0 THEN S
    ELSE Spaced(S, n - 1)
         \cup UNION {{InsertAt(s, i, c) : i \in 1..(Len(s) - 1), c \in {" ", "\n"}} :
                       s \in Spaced(S, n - 1)}

GUsSpellings == {kGUs, ToUpper(kGUs), <<"@","G",".","u","s">>}
ChatIDs == {<<"5">> \o s : s \in Spaced(GUsSpellings, MaxGaps)} \cup {idUser}

\* an identifier in a text that is no JSON, and in the Chat of an event
ChatTexts ==
    {<<"h","i"," ">> \o id : id \in ChatIDs}
    \cup {InfoEvent(kChat, Quote(id)) : id \in ChatIDs}

ExtractInputs ==
    {Request(ctJSON, c.body, <<>>, FALSE) : c \in JsonDataCases}
    \cup {Request(ctJSON, Obj1(kJsonData, Quote(t)), <<>>, FALSE) : t \in ChatTexts}
    \cup {Request(ctJSON, t, <<>>, FALSE) : t \in ChatTexts}

AllInputs == PipelineInputs \cup SmallInputs \cup ExtractInputs

\* the payloads each request may be read as and what the raw filter says
\* of each payload: both evaluated once
Payloads ==
    [in \in AllInputs |-> ExtractPayload(in.contentType, in.body, in.query)]
Classes ==
    [p \in UNION {Payloads[in] : in \in AllInputs} \cup {<<>>} |-> RawClassify(p)]

(***************************************************************************)
(* The state of the service.                                               *)
(***************************************************************************)
VARIABLES
    now,       \* the wall clock, time.Now()
    items,     \* MemoryCache.items: secret -> entry
    store,     \* the clients table: secret_id -> row
    env,       \* the process environment: name -> value
    config,    \* config.Config
    req,       \* the webhook requests in flight, one per handler goroutine
    arrivals,  \* the number of webhook requests received so far
    returned,  \* history: secret -> the destinations Resolve has returned
    mu,        \* MemoryCache.mu: the goroutines holding the RWMutex
    callers,   \* the goroutines calling Get, Set and Delete on the cache
    janitor,   \* the goroutine running StartJanitor
    stopChan,  \* MemoryCache.stopChan: TRUE once closed
    tickerC,   \* the janitor's ticker.C: TRUE while a tick is waiting
    calls,     \* the number of calls of Get, Set and Delete made so far
    converter, \* the LIDConverter
    call,      \* the call of the converter being observed
    alerts,    \* the goroutines started by notifySlack, in order of start
    last,      \* notify.last: key -> the time the key was last recorded
    notifyMu,  \* notify.mu: the goroutine holding the mutex, 0 when free
    sent       \* history: the deliveries handed to the HTTP client

serviceVars == <<store, env, config, req, arrivals, returned>>
cacheVars == <<mu, callers, janitor, stopChan, tickerC, calls>>
converterVars == <<converter, call>>
notifyVars == <<last, notifyMu, sent>>
alertVars == <<alerts, last, notifyMu, sent>>

vars == <<now, items, store, env, config, req, arrivals, returned,
          mu, callers, janitor, stopChan, tickerC, calls, converter, call,
          alerts, last, notifyMu, sent>>

\* CACHE_TTL_SECONDS, in ticks of the model's clock
TTL == 2
MaxTime == 3
MaxArrivals == 3

Secrets == {<<"a","-","B">>, <<"7">>}
Slots == {1, 2}

\* config.Config: the admin token and the alert destination
NoSlack == [url |-> <<>>, token |-> <<>>, channel |-> <<>>]
Config(adminToken, slack) ==
    [AdminServiceToken |-> adminToken,
     SlackWebhookURL   |-> slack.url,
     SlackBotToken     |-> slack.token,
     SlackChannelID    |-> slack.channel]

urlX   == <<"http", ":", "//dest/x">>
urlY   == <<"http", ":", "//dest/y">>
urlEnv == <<"http", ":", "//env/e">>
urlBad == <<":", "//bad">>

\* ---- cache.MemoryCache ----
NoSource == [kind |-> "none", url |-> <<>>, active |-> FALSE]
\* the zero entry a missing key reads as; src is history: what the value was read from
NoEntry == [ok |-> FALSE, value |-> <<>>, expiresAt |-> 0, src |-> NoSource]

\* an entry taken as expired from the instant of its expiry
GetFound_AtExpiry(e, t) == e.ok /\ t < e.expiresAt

\* Get, after the read of items[key]: !ok || time.Now().After(e.expiresAt)
GetFound(e, t) == e.ok /\ ~(t > e.expiresAt)

\* an entry that expires at the time it is set
SetEntry_NoTTL(value, t, src) ==
    [ok |-> TRUE, value |-> value, expiresAt |-> t, src |-> src]

\* Set: items[key] = entry{value, time.Now().Add(ttl)}
SetEntry(value, t, src) ==
    [ok |-> TRUE, value |-> value, expiresAt |-> t + TTL, src |-> src]

\* the janitor's pass: delete every entry with now.After(e.expiresAt)
Swept(table, t) ==
    [k \in DOMAIN table |->
        IF table[k].ok /\ t > table[k].expiresAt THEN NoEntry ELSE table[k]]

\* ---- the environment ----
LowerName(secretID) == <<"CLIENT_">> \o ToLower(ReplaceAll(secretID, "-", "_"))
UpperName(secretID) == <<"CLIENT_">> \o ToUpper(ReplaceAll(secretID, "-", "_"))
EnvNames == {LowerName(s) : s \in Secrets} \cup {UpperName(s) : s \in Secrets}

Getenv(name) == IF name \in DOMAIN env THEN env[name] ELSE <<>>

FirstNonEmpty(lower, upper) ==
    IF lower # <<>> THEN [url |-> lower, ok |-> TRUE]
    ELSE IF upper # <<>> THEN [url |-> upper, ok |-> TRUE]
    ELSE [url |-> <<>>, ok |-> FALSE]

resolveClientWebhookURLFromEnv(secretID) ==
    FirstNonEmpty(TrimSpace(Getenv(LowerName(secretID))),
                  TrimSpace(Getenv(UpperName(secretID))))

\* ---- the clients table ----
NoRow == [present |-> FALSE, WebhookURL |-> <<>>, IsActive |-> FALSE]
Row(url, active) == [present |-> TRUE, WebhookURL |-> url, IsActive |-> active]

\* ---- net/http ----
\* url.Parse refuses a URL that starts with a colon or holds a control character
NewRequestFails(url) ==
    \/ url # <<>> /\ Head(url) = ":"
    \/ \E i \in 1..Len(url) : url[i] \in {"\n", "\r", "\t"}

\* the transport speaks http and https only
CanReach(url) == url # <<>> /\ Head(url) \in {"http", "https"}

NoResponse == [status |-> 0, contentType |-> "", body |-> ""]
Response(status, contentType, body) ==
    [status |-> status, contentType |-> contentType, body |-> body]
\* c.JSON(status, gin.H{...})
JSONResponse(status, body) ==
    Response(status, "application/json; charset=utf-8", body)

\* what a destination may answer
Created == Response(201, "text/plain", "ok")
DestResponses == { Created,
                   Response(404, "", ""),
                   Response(502, "application/json", "{\"error\":\"x\"}") }

NoUpstream == [kind |-> "none", resp |-> NoResponse]
TransportError == [kind |-> "error", resp |-> NoResponse]
Answered(d) == [kind |-> "response", resp |-> d]

\* ---- a webhook request ----
NoInput == Request(<<>>, <<>>, <<>>, FALSE)
NoClass == [isGroup |-> FALSE, reason |-> ""]

\* pc is the handler's position; log, must and seen are history: the sources
\* Resolve consulted, and the destinations earlier calls returned
IdleRequest ==
    [pc |-> "idle", secret |-> <<>>, input |-> NoInput, payload |-> <<>>,
     e |-> NoEntry, log |-> <<>>, found |-> "pending", url |-> <<>>,
     src |-> NoSource, must |-> {}, seen |-> {}, class |-> NoClass,
     posts |-> <<>>, upstream |-> NoUpstream, resp |-> NoResponse,
     prepurge |-> FALSE, alerted |-> ""]

\* the messages the handler hands to notifySlack (fmt.Sprintf)
MsgReadBody(secretID) ==
    <<":warning: Erro ao ler corpo | secretId=">> \o secretID
        \o <<" | err=", "unexpected EOF">>
MsgNoPayload(secretID, in) ==
    <<":warning: jsonData ausente | secretId=">> \o secretID
        \o <<" | CT=">> \o in.contentType \o <<" | len=", ToString(Len(in.body))>>
MsgNotFound(secretID) == <<":warning: client_not_found | secretId=">> \o secretID
MsgNewRequest(targetURL, secretID) ==
    <<":warning: Erro criar req para ">> \o targetURL
        \o <<" | secretId=">> \o secretID \o <<" | err=", "parse error">>
MsgForward(targetURL, secretID) ==
    <<":warning: Forward falhou para ">> \o targetURL
        \o <<" | secretId=">> \o secretID \o <<" | err=", "transport error">>

\* notifySlack(msg) called by the handler; the request keeps which message
\* it was, and Message gives its text
Alerted(q, msg) == [q EXCEPT !.alerted = msg]
Message(q) ==
    CASE q.alerted = "MsgReadBody"   -> MsgReadBody(q.secret)
      [] q.alerted = "MsgNoPayload"  -> MsgNoPayload(q.secret, q.input)
      [] q.alerted = "MsgNotFound"   -> MsgNotFound(q.secret)
      [] q.alerted = "MsgNewRequest" -> MsgNewRequest(q.url, q.secret)
      [] q.alerted = "MsgForward"    -> MsgForward(q.url, q.secret)

\* the goroutine notifySlack starts, if an alert destination is configured;
\* pc is its position in PostSlack or PostSlackWithBot
Goroutine(fn, destination, channelID, text) ==
    [fn |-> fn, url |-> destination, channel |-> channelID, text |-> text,
     pc |-> "start", recent |-> FALSE, at |-> 0, ret |-> ""]
slackAPI == <<"https", ":", "//slack.com/api/chat.postMessage">>
Started(msg) ==
    IF TrimSpace(config.SlackWebhookURL) # <<>>
    THEN <<Goroutine("PostSlack", TrimSpace(config.SlackWebhookURL), <<>>, msg)>>
    ELSE IF /\ TrimSpace(config.SlackBotToken) # <<>>
            /\ TrimSpace(config.SlackChannelID) # <<>>
    THEN <<Goroutine("PostSlackWithBot", slackAPI,
                     TrimSpace(config.SlackChannelID), msg)>>
    ELSE <<>>
\* q.alerted is empty when the handler returned without calling notifySlack
notifySlack(q) ==
    alerts' = IF q.alerted = "" THEN alerts ELSE alerts \o Started(Message(q))

Consult(q, source, hit) == [q EXCEPT !.log = Append(@, [src |-> source, hit |-> hit])]
Done(q, resp) == [q EXCEPT !.pc = "done", !.resp = resp]

TypeOK ==
    /\ now \in Nat
    /\ arrivals \in Nat
    /\ DOMAIN items = Secrets
    /\ DOMAIN store = Secrets
    /\ DOMAIN req = Slots
    /\ \A r \in Slots :
          /\ req[r].pc \in {"idle", "get_check", "store", "set", "do", "done"}
          /\ req[r].input \in AllInputs \cup {NoInput}
          /\ req[r].found \in {"pending", "yes", "no"}

(***************************************************************************)
(* POST /webhook/:secretId                                                 *)
(***************************************************************************)
\* the check without strings.TrimSpace
PayloadMissing_NoTrim(jsonDataStr) == jsonDataStr = <<>>

\* strings.TrimSpace(jsonDataStr) == ""
PayloadMissing(jsonDataStr) == TrimSpace(jsonDataStr) = <<>>

\* bodyTrim sent in place of bodyBytes
OutboundRequest_Trimmed(targetURL, in) ==
    [url         |-> targetURL,
     body        |-> TrimSpace(in.body),
     contentType |-> IF in.contentType # <<>> THEN in.contentType ELSE ctForm]

\* the request built by http.NewRequest and its Content-Type header
OutboundRequest(targetURL, in) ==
    [url         |-> targetURL,
     body        |-> in.body,
     contentType |-> IF in.contentType # <<>> THEN in.contentType ELSE ctForm]

\* the raw filter, then http.NewRequest
Filtered(q, class) ==
    IF class.isGroup
    THEN Done([q EXCEPT !.class = class],
              JSONResponse(200, "{\"status\":\"ignored_group_message\"}"))
    ELSE IF NewRequestFails(q.url)
    THEN Done(Alerted([q EXCEPT !.class = class], "MsgNewRequest"),
              JSONResponse(500, "{\"error\":\"erro interno\"}"))
    ELSE [q EXCEPT !.class = class, !.pc = "do"]

\* the handler from the return of resolveClientWebhookCached to
\* d.HTTPClient.Do
AfterResolve(q, targetURL) ==
    Filtered([q EXCEPT !.found = "yes", !.url = targetURL], Classes[q.payload])

\* the handler up to the first step of resolveClientWebhookCached, the
\* read of items[secretID] in Get
Received(q0, in, jsonDataStr) ==
    IF q0.secret = <<>>
    THEN Done(q0, JSONResponse(400, "{\"error\":\"secret id ausente\"}"))
    ELSE IF in.readErr
    THEN Done(Alerted(q0, "MsgReadBody"),
              JSONResponse(400, "{\"error\":\"corpo inválido\"}"))
    ELSE IF PayloadMissing(jsonDataStr)
    THEN Done(Alerted([q0 EXCEPT !.payload = jsonDataStr],
                      "MsgNoPayload"),
              JSONResponse(400, "{\"error\":\"jsonData ausente\"}"))
    ELSE [q0 EXCEPT !.payload = jsonDataStr, !.pc = "get_check",
                    !.e = items[q0.secret], !.seen = returned[q0.secret]]

\* the payloads the handler may extract: none is looked for when the
\* secret is blank or the body cannot be read
Extracted(secretID, in) ==
    IF secretID = <<>> \/ in.readErr THEN {<<>>} ELSE Payloads[in]

WebhookReceive(r, param, in) ==
    /\ req[r].pc \in {"idle", "done"}
    /\ arrivals < MaxArrivals
    /\ arrivals' = arrivals + 1
    /\ \E p \in Extracted(TrimSpace(param), in) :
          req' = [req EXCEPT ![r] =
                    Received([IdleRequest EXCEPT !.secret = TrimSpace(param),
                                                 !.input = in], in, p)]
    /\ notifySlack(req'[r])
    /\ UNCHANGED <<now, items, store, env, config, returned,
                 cacheVars, converterVars, notifyVars>>

\* the ENV lookup after a cache miss
EnvThenStore(q, fromEnv) ==
    IF fromEnv.ok
    THEN [Consult(q, "env", "hit") EXCEPT
            !.pc = "set", !.url = fromEnv.url,
            !.src = [kind |-> "env", url |-> fromEnv.url, active |-> TRUE]]
    ELSE [Consult(q, "env", "miss") EXCEPT !.pc = "store"]

\* the ENV lookup made before the cache is looked at
CacheThenEnv_EnvFirst(q, t) ==
    IF resolveClientWebhookURLFromEnv(q.secret).ok
    THEN EnvThenStore(q, resolveClientWebhookURLFromEnv(q.secret))
    ELSE IF GetFound(q.e, t)
    THEN AfterResolve(Consult(Consult(q, "env", "miss"), "cache", "hit"), q.e.value)
    ELSE [Consult(Consult(q, "env", "miss"), "cache", "miss") EXCEPT !.pc = "store"]

\* resolveClientWebhookCached from the time check of Get to the ENV lookup
CacheThenEnv(q, t) ==
    IF GetFound(q.e, t)
    THEN AfterResolve(Consult(q, "cache", "hit"), q.e.value)
    ELSE EnvThenStore(Consult(q, "cache", "miss"),
                      resolveClientWebhookURLFromEnv(q.secret))

\* the destinations earlier calls returned whose entries have not expired
Unexpired(promises, t) == {p.d : p \in {x \in promises : t <= x.exp}}

ResolveGetCheck(r) ==
    /\ req[r].pc = "get_check"
    /\ req' = [req EXCEPT ![r] =
                 CacheThenEnv([req[r] EXCEPT !.must = Unexpired(req[r].seen, now),
                                             !.seen = {}], now)]
    /\ returned' =
         IF GetFound(req[r].e, now)
         THEN [returned EXCEPT ![req[r].secret] =
                 @ \cup {[d |-> req[r].e.value, exp |-> req[r].e.expiresAt]}]
         ELSE returned
    /\ notifySlack(req'[r])
    /\ UNCHANGED <<now, items, store, env, config, arrivals,
                 cacheVars, converterVars, notifyVars>>

\* the check without client.IsActive
StoreUsable_AnyRow(row, err) == ~err /\ row.present

\* err == nil && client != nil && client.IsActive
StoreUsable(row, err) == ~err /\ row.present /\ row.IsActive

StoreOutcome(row, err) ==
    IF err THEN "error" ELSE IF ~row.present THEN "absent"
    ELSE IF ~row.IsActive THEN "inactive" ELSE "hit"

\* a store error reported as an internal error
AfterStore_ErrorIs500(q, row, err) ==
    IF err
    THEN Done([Consult(q, "store", "error") EXCEPT !.found = "no"],
              JSONResponse(500, "{\"error\":\"erro interno\"}"))
    ELSE IF row.present /\ row.IsActive
    THEN [Consult(q, "store", "hit") EXCEPT
            !.pc = "set", !.url = row.WebhookURL,
            !.src = [kind |-> "store", url |-> row.WebhookURL, active |-> TRUE]]
    ELSE Done([Consult(q, "store", IF row.present THEN "inactive" ELSE "absent")
                 EXCEPT !.found = "no"],
              JSONResponse(404, "{\"error\":\"Cliente não encontrado\"}"))

\* d.ClientSvc.GetBySecretID and the handler's 404
AfterStore(q, row, err) ==
    IF StoreUsable(row, err)
    THEN [Consult(q, "store", StoreOutcome(row, err)) EXCEPT
            !.pc = "set", !.url = row.WebhookURL,
            !.src = [kind |-> "store", url |-> row.WebhookURL,
                     active |-> row.IsActive]]
    ELSE Done(Alerted([Consult(q, "store", StoreOutcome(row, err))
                         EXCEPT !.found = "no"], "MsgNotFound"),
              JSONResponse(404, "{\"error\":\"Cliente não encontrado\"}"))

ResolveStore(r) ==
    /\ req[r].pc = "store"
    /\ \E err \in BOOLEAN :
          req' = [req EXCEPT ![r] = AfterStore(req[r], store[req[r].secret], err)]
    /\ notifySlack(req'[r])
    /\ UNCHANGED <<now, items, store, env, config, arrivals, returned,
                 cacheVars, converterVars, notifyVars>>

\* d.Cache.Set(secretID, url) and the return to the handler
ResolveSet(r) ==
    /\ req[r].pc = "set"
    /\ items' = [items EXCEPT ![req[r].secret] =
                    SetEntry(req[r].url, now, req[r].src)]
    /\ returned' = [returned EXCEPT ![req[r].secret] =
                      @ \cup {[d |-> req[r].url, exp |-> now + TTL]}]
    /\ req' = [req EXCEPT ![r] =
                 AfterResolve([req[r] EXCEPT !.prepurge = FALSE], req[r].url)]
    /\ notifySlack(req'[r])
    /\ UNCHANGED <<now, store, env, config, arrivals,
                 cacheVars, converterVars, notifyVars>>

\* a transport error reported as an internal error
Relayed_ErrorIs500(up) ==
    IF up.kind = "error"
    THEN JSONResponse(500, "{\"error\":\"erro interno\"}")
    ELSE Response(up.resp.status, up.resp.contentType, up.resp.body)

\* the answer to the caller after d.HTTPClient.Do
Relayed(up) ==
    IF up.kind = "error"
    THEN JSONResponse(502, "{\"error\":\"destino indisponível\"}")
    ELSE Response(up.resp.status, up.resp.contentType, up.resp.body)

\* what d.HTTPClient.Do may come back with
Upstreams(url, answers) ==
    {TransportError}
    \cup (IF CanReach(url) THEN {Answered(d) : d \in answers} ELSE {})

ForwardDo(r, answers) ==
    /\ req[r].pc = "do"
    /\ \E up \in Upstreams(req[r].url, answers) :
          req' = [req EXCEPT ![r] =
                    Done([req[r] EXCEPT
                            !.posts = Append(@, OutboundRequest(req[r].url,
                                                                req[r].input)),
                            !.upstream = up,
                            !.alerted = IF up.kind = "error"
                                        THEN "MsgForward" ELSE ""],
                         Relayed(up))]
    /\ notifySlack(req'[r])
    /\ UNCHANGED <<now, items, store, env, config, arrivals, returned,
                 cacheVars, converterVars, notifyVars>>

(***************************************************************************)
(* POST /admin/cache/purge/:secretId                                       *)
(***************************************************************************)
PurgeAuthorized(token) ==
    TrimSpace(config.AdminServiceToken) # <<>> /\ token = config.AdminServiceToken

\* history: a purge ends what earlier calls promised for the secret, and
\* finds the calls that have read a record the store no longer gives and
\* have not yet called Set
Forgotten(q, secretID) ==
    IF q.secret = secretID
    THEN [q EXCEPT !.seen = {}, !.must = {},
                   !.prepurge = \/ @
                                \/ /\ q.pc = "set"
                                   /\ q.src.kind = "store"
                                   /\ store[secretID] # Row(q.url, TRUE)]
    ELSE q

AdminPurge(param, token) ==
    /\ PurgeAuthorized(token)
    /\ TrimSpace(param) # <<>>
    /\ items' = [items EXCEPT ![TrimSpace(param)] = NoEntry]
    /\ returned' = [returned EXCEPT ![TrimSpace(param)] = {}]
    /\ req' = [r \in Slots |-> Forgotten(req[r], TrimSpace(param))]
    /\ UNCHANGED <<now, store, env, config, arrivals,
                 cacheVars, converterVars, alertVars>>

(***************************************************************************)
(* /api/clients: ClientService over the clients table                      *)
(***************************************************************************)
\* service.Create: name and webhookUrl are required, IsActive is forced;
\* the INSERT fails on a secret_id already in the table
CreateClient(secretID, name, url) ==
    /\ name # <<>> /\ url # <<>>
    /\ ~store[secretID].present
    /\ store' = [store EXCEPT ![secretID] = Row(url, TRUE)]
    /\ UNCHANGED <<now, items, env, config, req, arrivals, returned,
                 cacheVars, converterVars, alertVars>>

\* service.Update: name and webhookUrl are required
UpdateClient(secretID, name, url, isActive) ==
    /\ name # <<>> /\ url # <<>>
    /\ store[secretID].present
    /\ store' = [store EXCEPT ![secretID] = Row(url, isActive)]
    /\ UNCHANGED <<now, items, env, config, req, arrivals, returned,
                 cacheVars, converterVars, alertVars>>

(***************************************************************************)
(* package notify: PostSlack and PostSlackWithBot                          *)
(***************************************************************************)
\* time.Minute, in ticks of the model's clock
Minute == 2

\* key := text, and key := "bot:" + channelID + ":" + text
Key(a) ==
    IF a.fn = "PostSlack" THEN a.text
    ELSE <<"bot:">> \o a.channel \o <<":">> \o a.text

\* the first return: nothing to send or nowhere to send it
NothingToSend(a) ==
    \/ a.text = <<>>
    \/ IF a.fn = "PostSlack" THEN a.url = <<>> ELSE a.channel = <<>>

\* PostSlack without mu
MutexFree_Always(m) == TRUE

\* mu.Lock() returns when no goroutine holds mu
MutexFree(m) == m = 0

\* t, ok := last[key]; ok && time.Since(t) < time.Minute
Recent(key, t) == key \in DOMAIN last /\ t - last[key] < Minute

Returned(a, ret) == [a EXCEPT !.pc = "done", !.ret = ret]

\* from the call to the test of last[key] under mu; a recent key ends the
\* call with mu.Unlock()
PostSlackCheck(i) ==
    /\ i \in DOMAIN alerts
    /\ alerts[i].pc = "start"
    /\ IF NothingToSend(alerts[i])
       THEN /\ alerts' = [alerts EXCEPT ![i] = Returned(@, "nil")]
            /\ UNCHANGED notifyMu
       ELSE /\ MutexFree(notifyMu)
            /\ IF Recent(Key(alerts[i]), now)
               THEN /\ alerts' = [alerts EXCEPT ![i] =
                                    Returned([@ EXCEPT !.recent = TRUE], "nil")]
                    /\ UNCHANGED notifyMu
               ELSE /\ alerts' = [alerts EXCEPT ![i].pc = "record"]
                    /\ notifyMu' = i
    /\ UNCHANGED <<now, items, serviceVars, cacheVars, converterVars, last, sent>>

\* last[key] = time.Now(); mu.Unlock()
PostSlackRecord(i) ==
    /\ i \in DOMAIN alerts
    /\ alerts[i].pc = "record"
    /\ last' = [k \in DOMAIN last \cup {Key(alerts[i])} |->
                  IF k = Key(alerts[i]) THEN now ELSE last[k]]
    /\ notifyMu' = 0
    /\ alerts' = [alerts EXCEPT ![i].pc = "send", ![i].at = now]
    /\ UNCHANGED <<now, items, serviceVars, cacheVars, converterVars, sent>>

\* what Slack may do with the message
SlackOutcomes == {"ok", "status", "error"}

\* http.NewRequestWithContext and client.Do
PostSlackDo(i, outcome) ==
    /\ i \in DOMAIN alerts
    /\ alerts[i].pc = "send"
    /\ IF NewRequestFails(alerts[i].url)
       THEN /\ alerts' = [alerts EXCEPT ![i] = Returned(@, "error")]
            /\ UNCHANGED sent
       ELSE /\ sent' = sent \cup {[by |-> i, key |-> Key(alerts[i]),
                                   text |-> alerts[i].text, at |-> alerts[i].at]}
            /\ alerts' = [alerts EXCEPT ![i] =
                            Returned(@, IF outcome = "ok" THEN "nil" ELSE "error")]
    /\ UNCHANGED <<now, items, serviceVars, cacheVars, converterVars, last, notifyMu>>

(***************************************************************************)
(* Time and the janitor                                                    *)
(***************************************************************************)
Tick ==
    /\ now < MaxTime
    /\ now' = now + 1
    /\ returned' = [s \in Secrets |-> {p \in returned[s] : p.exp >= now + 1}]
    /\ UNCHANGED <<items, store, env, config, req, arrivals,
                 cacheVars, converterVars, alertVars>>

\* one tick of StartJanitor's ticker
JanitorSweep ==
    /\ items' = Swept(items, now)
    /\ UNCHANGED <<now, store, env, config, req, arrivals, returned,
                 cacheVars, converterVars, alertVars>>

(***************************************************************************)
(* cache.MemoryCache statement by statement: the RWMutex, the goroutines   *)
(* that call Get, Set and Delete, and the select loop of StartJanitor.     *)
(* The assignment items[key] = entry{...} stores two words, the value and  *)
(* then the expiry: it is one write only to those the mutex keeps out.     *)
(***************************************************************************)
Callers == {"g1", "g2"}
MaxCalls == 2
JanitorID == "janitor"

Unlocked == [writers |-> {}, readers |-> {}]

\* mu.Lock() returns once no goroutine holds the mutex
CanLock(m) == m.writers = {} /\ m.readers = {}

\* an RLock that does not wait for the writer
CanRLock_Always(m) == TRUE

\* mu.RLock() returns once no writer holds the mutex
CanRLock(m) == m.writers = {}

NoResult == [value |-> <<>>, found |-> FALSE]

\* e is what Get read or Set built, old is history: the entry Set replaced
IdleCaller ==
    [pc |-> "idle", op |-> "none", key |-> <<>>, value |-> <<>>,
     e |-> NoEntry, old |-> NoEntry, ret |-> NoResult]

Calling(g, op, pc, key, value) ==
    [callers EXCEPT ![g] = [IdleCaller EXCEPT !.pc = pc, !.op = op, !.key = key,
                                              !.value = value,
                                              !.old = items[key]]]

\* Get: c.mu.RLock()
GetRLock(g, key) ==
    /\ callers[g].pc = "idle"
    /\ calls < MaxCalls
    /\ calls' = calls + 1
    /\ CanRLock(mu)
    /\ mu' = [mu EXCEPT !.readers = @ \cup {g}]
    /\ callers' = Calling(g, "Get", "get_read", key, <<>>)
    /\ UNCHANGED <<now, items, janitor, stopChan, tickerC, serviceVars, converterVars, alertVars>>

\* Get: e, ok := c.items[key]; c.mu.RUnlock()
GetRead(g) ==
    /\ callers[g].pc = "get_read"
    /\ mu' = [mu EXCEPT !.readers = @ \ {g}]
    /\ callers' = [callers EXCEPT ![g].pc = "get_check",
                                  ![g].e = items[callers[g].key]]
    /\ UNCHANGED <<now, items, janitor, stopChan, tickerC, calls, serviceVars, converterVars, alertVars>>

\* Get: the zero value and false, or e.value and true
GetResult(e, t) ==
    IF GetFound(e, t) THEN [value |-> e.value, found |-> TRUE] ELSE NoResult

\* Get: if !ok || time.Now().After(e.expiresAt), and the return
GetReturn(g) ==
    /\ callers[g].pc = "get_check"
    /\ callers' = [callers EXCEPT ![g].pc = "idle",
                                  ![g].ret = GetResult(callers[g].e, now)]
    /\ UNCHANGED <<now, items, mu, janitor, stopChan, tickerC, calls, serviceVars,
                   converterVars, alertVars>>

\* Set: c.mu.Lock()
SetLock(g, key, value) ==
    /\ callers[g].pc = "idle"
    /\ calls < MaxCalls
    /\ calls' = calls + 1
    /\ CanLock(mu)
    /\ mu' = [mu EXCEPT !.writers = {g}]
    /\ callers' = Calling(g, "Set", "set_value", key, value)
    /\ UNCHANGED <<now, items, janitor, stopChan, tickerC, serviceVars, converterVars, alertVars>>

\* history: the entry was handed to Set by a caller
CallerSource(value) == [kind |-> "caller", url |-> value, active |-> TRUE]

\* Set: entry{value, time.Now().Add(c.ttl)} is built and its first word stored
SetValue(g) ==
    /\ callers[g].pc = "set_value"
    /\ callers' = [callers EXCEPT
                     ![g].pc = "set_expiry",
                     ![g].e = SetEntry(callers[g].value, now,
                                       CallerSource(callers[g].value))]
    /\ items' = [items EXCEPT ![callers[g].key] =
                    [@ EXCEPT !.ok = TRUE, !.value = callers[g].value]]
    /\ UNCHANGED <<now, mu, janitor, stopChan, tickerC, calls, serviceVars, converterVars, alertVars>>

\* Set: the second word is stored; c.mu.Unlock()
SetExpiry(g) ==
    /\ callers[g].pc = "set_expiry"
    /\ items' = [items EXCEPT ![callers[g].key] = callers[g].e]
    /\ mu' = [mu EXCEPT !.writers = @ \ {g}]
    /\ callers' = [callers EXCEPT ![g].pc = "idle"]
    /\ UNCHANGED <<now, janitor, stopChan, tickerC, calls, serviceVars, converterVars, alertVars>>

\* Delete: c.mu.Lock()
DeleteLock(g, key) ==
    /\ callers[g].pc = "idle"
    /\ calls < MaxCalls
    /\ calls' = calls + 1
    /\ CanLock(mu)
    /\ mu' = [mu EXCEPT !.writers = {g}]
    /\ callers' = Calling(g, "Delete", "delete", key, <<>>)
    /\ UNCHANGED <<now, items, janitor, stopChan, tickerC, serviceVars, converterVars, alertVars>>

\* Delete: delete(c.items, key); c.mu.Unlock()
DeleteRemove(g) ==
    /\ callers[g].pc = "delete"
    /\ items' = [items EXCEPT ![callers[g].key] = NoEntry]
    /\ mu' = [mu EXCEPT !.writers = @ \ {g}]
    /\ callers' = [callers EXCEPT ![g].pc = "idle"]
    /\ UNCHANGED <<now, janitor, stopChan, tickerC, calls, serviceVars, converterVars, alertVars>>

\* ---- StartJanitor ----
\* stamp is the pass's now, todo the keys the range has yet to visit;
\* removed is history: the keys the pass deleted
AtSelect == [pc |-> "select", stamp |-> 0, todo |-> {}, removed |-> {}]

\* a pass that also deletes the entries expiring at its timestamp
SweepEntry_AtExpiry(e, stamp) ==
    IF e.ok /\ stamp >= e.expiresAt THEN NoEntry ELSE e

\* if now.After(e.expiresAt) { delete(c.items, k) }
SweepEntry(e, stamp) ==
    IF e.ok /\ stamp > e.expiresAt THEN NoEntry ELSE e

\* the ticker sends a tick unless one is still waiting in ticker.C
TickerFire ==
    /\ janitor.pc # "returned"
    /\ ~tickerC
    /\ tickerC' = TRUE
    /\ UNCHANGED <<now, items, mu, callers, janitor, stopChan, calls, serviceVars,
                   converterVars, alertVars>>

\* case <-ticker.C: now := time.Now()
JanitorTick ==
    /\ janitor.pc = "select"
    /\ tickerC
    /\ tickerC' = FALSE
    /\ janitor' = [AtSelect EXCEPT !.pc = "lock", !.stamp = now]
    /\ UNCHANGED <<now, items, mu, callers, stopChan, calls, serviceVars, converterVars, alertVars>>

\* c.mu.Lock(); the range starts over the keys in the table
JanitorLock ==
    /\ janitor.pc = "lock"
    /\ CanLock(mu)
    /\ mu' = [mu EXCEPT !.writers = {JanitorID}]
    /\ janitor' = [janitor EXCEPT !.pc = "range",
                                  !.todo = {k \in DOMAIN items : items[k].ok}]
    /\ UNCHANGED <<now, items, callers, stopChan, tickerC, calls, serviceVars,
                   converterVars, alertVars>>

\* one iteration of for k, e := range c.items, in the order Go picks
JanitorVisit(k) ==
    /\ janitor.pc = "range"
    /\ k \in janitor.todo
    /\ items' = [items EXCEPT ![k] = SweepEntry(@, janitor.stamp)]
    /\ janitor' = [janitor EXCEPT
                     !.todo = @ \ {k},
                     !.removed = IF SweepEntry(items[k], janitor.stamp).ok
                                 THEN @ ELSE @ \cup {k}]
    /\ UNCHANGED <<now, mu, callers, stopChan, tickerC, calls, serviceVars, converterVars, alertVars>>

\* the range is over: c.mu.Unlock(), back to the select
JanitorUnlock ==
    /\ janitor.pc = "range"
    /\ janitor.todo = {}
    /\ mu' = [mu EXCEPT !.writers = @ \ {JanitorID}]
    /\ janitor' = [janitor EXCEPT !.pc = "select"]
    /\ UNCHANGED <<now, items, callers, stopChan, tickerC, calls, serviceVars,
                   converterVars, alertVars>>

\* StopJanitor: close(c.stopChan)
StopJanitor ==
    /\ ~stopChan
    /\ stopChan' = TRUE
    /\ UNCHANGED <<now, items, mu, callers, janitor, tickerC, calls, serviceVars,
                   converterVars, alertVars>>

\* case <-c.stopChan: return
JanitorStop ==
    /\ janitor.pc = "select"
    /\ stopChan
    /\ janitor' = [janitor EXCEPT !.pc = "returned"]
    /\ UNCHANGED <<now, items, mu, callers, stopChan, tickerC, calls, serviceVars,
                   converterVars, alertVars>>

(***************************************************************************)
(* webhook.LIDConverter                                                    *)
(***************************************************************************)
NoCall == [fn |-> "none"]

kLid          == <<"@","l","i","d">>
kSenderAlt    == kSender \o <<"A","l","t">>
kRecipientAlt == <<"R","e","c","i","p","i","e","n","t","A","l","t">>
kStatus       == <<"s","t","a","t","u","s">>
kData         == <<"d","a","t","a">>
kSuccess      == <<"s","u","c","c","e","s","s">>
kJid          == <<"j","i","d">>
kFalse        == <<"f","a","l","s","e">>

\* strings.TrimSuffix
TrimSuffix(s, suffix) ==
    IF HasSuffix(s, suffix) THEN SubSeq(s, 1, Len(s) - Len(suffix)) ELSE s

NewLIDConverter(baseURL) == [BaseURL |-> TrimSuffix(baseURL, <<"/">>)]

IsLID(id) == HasSuffix(ToLower(id), kLid)

\* ---- what the conversion API does with one request ----
NoAnswer == [kind |-> "error", status |-> 0, body |-> <<>>]
Answer(status, body) == [kind |-> "response", status |-> status, body |-> body]

\* ---- the calls the converter is driven with ----
idLid      == <<"5">> \o kLid
idLidUp    == <<"5","@","L","I","D">>
idLidSpace == idLid \o <<" ">>
jidUser    == <<"5","@","s",".","w","h","a","t","s","a","p","p",".","n","e","t">>
Lids       == {idLid, idLidUp, idLidSpace, idUser, <<>>}
Tokens     == {<<>>, <<"t","k">>}

urlAPI    == <<"http", ":", "//api">>
urlNoHost == <<":", "//api">>
urlFTP    == <<"ftp", ":", "//api">>
BaseURLs  == {<<>>, <<"/">>, urlAPI, urlAPI \o <<"/">>, urlNoHost, urlFTP}
Converters == {NewLIDConverter(b) : b \in BaseURLs}

\* {"status":s,"data":{"success":d,"jid":"..."}}
Body(s, d, jid) == Obj2(kStatus, s, kData, Obj2(kSuccess, d, kJid, Quote(jid)))
bodyNoJid     == Obj2(kStatus, kTrue, kData, Obj1(kSuccess, kTrue))
bodyNotJSON   == <<"o","k">>
bodyWrongType == Obj2(kStatus, Quote(kTrue), kData, Obj1(kSuccess, kTrue))

\* an answer of the API with what it says: whether its body is a response
\* document, whether both flags of the document are true, and the jid it names
Said(answer, decodes, flags, jid) ==
    [answer |-> answer, decodes |-> decodes, flags |-> flags, jid |-> jid]
saidNothing == Said(NoAnswer, FALSE, FALSE, <<>>)
saidUser    == Said(Answer(200, Body(kTrue, kTrue, jidUser)), TRUE, TRUE, jidUser)
saidGroup   == Said(Answer(200, Body(kTrue, kTrue, idGroup)), TRUE, TRUE, idGroup)
Replies ==
    {saidNothing, saidUser, saidGroup,
     Said(Answer(200, Body(kTrue, kTrue, jidUser) \o <<" ","x">>), TRUE, TRUE, jidUser),
     Said(Answer(200, bodyNoJid), TRUE, TRUE, <<>>),
     Said(Answer(200, Body(kFalse, kTrue, jidUser)), TRUE, FALSE, jidUser),
     Said(Answer(200, Body(kTrue, kFalse, jidUser)), TRUE, FALSE, jidUser),
     Said(Answer(200, Body(<<"n","u","l","l">>, kTrue, jidUser)), TRUE, FALSE, jidUser),
     Said(Answer(200, bodyNotJSON), FALSE, FALSE, <<>>),
     Said(Answer(200, bodyWrongType), FALSE, FALSE, <<>>),
     Said(Answer(200, <<>>), FALSE, FALSE, <<>>),
     Said(Answer(201, Body(kTrue, kTrue, jidUser)), TRUE, TRUE, jidUser),
     Said(Answer(204, <<>>), FALSE, FALSE, <<>>),
     Said(Answer(404, bodyNotJSON), FALSE, FALSE, <<>>),
     Said(Answer(500, Body(kTrue, kTrue, jidUser)), TRUE, TRUE, jidUser)}
FieldReplies == {saidNothing, saidUser, saidGroup}

\* {"event":{"Info":{...}}} holding the identifiers that are not empty
Ids(chat, sender, senderAlt, recipientAlt) ==
    [Chat |-> chat, Sender |-> sender, SenderAlt |-> senderAlt,
     RecipientAlt |-> recipientAlt]
NoIds == Ids(<<>>, <<>>, <<>>, <<>>)
Member(k, id) == IF id = <<>> THEN <<>> ELSE << Quote(k) \o <<":">> \o Quote(id) >>
RECURSIVE Joined(_)
Joined(ms) ==
    IF ms = <<>> THEN <<>>
    ELSE IF Len(ms) = 1 THEN ms[1]
    ELSE ms[1] \o <<",">> \o Joined(Tail(ms))
IdsEvent(ids) ==
    Obj1(kEvent, Obj1(kInfo,
        <<"{">> \o Joined(Member(kChat, ids.Chat) \o Member(kSender, ids.Sender)
                          \o Member(kSenderAlt, ids.SenderAlt)
                          \o Member(kRecipientAlt, ids.RecipientAlt)) \o <<"}">>))

\* an event with what it holds: whether it is an envelope, and its identifiers
Event(payload, parses, ids) == [payload |-> payload, parses |-> parses, ids |-> ids]
WithIds(ids) == Event(IdsEvent(ids), TRUE, ids)
evInfoString == Obj1(kEvent, Obj1(kInfo, Quote(idLid)))
evChatNumber ==
    Obj1(kEvent, Obj1(kInfo, Obj2(kChat, <<"5">>, kSender, Quote(idLid))))
DetectEvents ==
    {WithIds(Ids(idLid, idLid, idLid, idLid)),
     WithIds(Ids(idLid, <<>>, <<>>, <<>>)),
     WithIds(Ids(idUser, idLidUp, <<>>, <<>>)),
     WithIds(Ids(<<>>, <<>>, idLid, <<>>)),
     WithIds(Ids(<<>>, <<>>, <<>>, idLid)),
     WithIds(Ids(idLid, idUser, <<>>, idLid)),
     WithIds(Ids(idUser, idUser, idUser, idGroup)),
     WithIds(Ids(idGroup, idLid, <<>>, <<>>)),
     WithIds(Ids(idLidSpace, <<>>, <<>>, <<>>)),
     Event(evUser, TRUE, Ids(idUser, <<>>, <<>>, <<>>)),
     Event(evGroupChat, TRUE, Ids(idGroupUp, <<>>, <<>>, <<>>)),
     Event(evStatus, TRUE, Ids(idStatus, <<>>, <<>>, <<>>)),
     Event(evIsGroupBool, TRUE, NoIds),
     Event(evIsGroupStr, TRUE, NoIds),
     Event(evGroupID, TRUE, NoIds),
     Event(evChatNumber, TRUE, Ids(<<>>, idLid, <<>>, <<>>)),
     Event(evInfoString, FALSE, NoIds),
     Event(evNotJSON, FALSE, NoIds)}

\* ---- json.NewDecoder(resp.Body).Decode(&response) ----
\* a bool field accepts true, false and null; null leaves the field alone
BoolTypeOK(m, name) == \A i \in FieldKeys(m, name) : m[i].v.t \in {"bool", "null"}
StringTypeOK(m, name) == \A i \in FieldKeys(m, name) : m[i].v.t \in {"str", "null"}
BoolField(m, name) ==
    LET set == {i \in FieldKeys(m, name) : m[i].v.t = "bool"} IN
    set # {} /\ m[Max(set)].v.b
StringField(m, name) ==
    LET set == {i \in FieldKeys(m, name) : m[i].v.t = "str"} IN
    IF set = {} THEN <<>> ELSE m[Max(set)].v.s

NoLIDConvertResponse ==
    [ok |-> FALSE, Status |-> FALSE, Data |-> [Success |-> FALSE, JID |-> <<>>]]
ResponseFields(m, data) ==
    [ok     |-> TRUE,
     Status |-> BoolField(m, kStatus),
     Data   |-> [Success |-> BoolField(data, kSuccess),
                 JID     |-> StringField(data, kJid)]]

\* the decoder reads the first JSON value of the body and stops there
LIDConvertResponse(r) ==
    IF /\ r.ok /\ r.v.t \in {"obj", "null"}
       /\ BoolTypeOK(r.v.m, kStatus)
       /\ FieldTypeOK(r.v.m, kData)
       /\ \A i \in FieldKeys(r.v.m, kData) :
             BoolTypeOK(r.v.m[i].v.m, kSuccess) /\ StringTypeOK(r.v.m[i].v.m, kJid)
    THEN ResponseFields(r.v.m, Field(r.v.m, kData))
    ELSE NoLIDConvertResponse
Decode(body) == LIDConvertResponse(ParseValue(body, 1))

\* the bodies and the events of the calls, decoded once
Responses == [body \in {r.answer.body : r \in Replies} |-> Decode(body)]
Envelopes == [p \in {e.payload : e \in DetectEvents} |-> UnmarshalEnvelope(p)]

\* ---- ConvertLIDToJID ----
\* err names the return statement that produced the error, "" for nil;
\* called tells whether HTTPClient.Do ran
Failure(err, called) == [jid |-> <<>>, err |-> err, called |-> called]

FromResponse(response) ==
    IF ~response.ok THEN Failure("decode", TRUE)
    ELSE IF ~response.Status \/ ~response.Data.Success THEN Failure("api", TRUE)
    ELSE [jid |-> response.Data.JID, err |-> "", called |-> TRUE]

StatusOK == 200

FromAnswer_Any2xx(answer) ==
    IF answer.kind = "error" THEN Failure("do", TRUE)
    ELSE IF answer.status \notin 200..299 THEN Failure("status", TRUE)
    ELSE FromResponse(Responses[answer.body])

FromAnswer(answer) ==
    IF answer.kind = "error" THEN Failure("do", TRUE)
    ELSE IF answer.status # StatusOK THEN Failure("status", TRUE)
    ELSE FromResponse(Responses[answer.body])

ParseLIDURL(c) == c.BaseURL \o <<"/user/parselid">>

\* HTTPClient.Do: a URL the transport cannot reach fails without an answer
Do(url, answer) == IF CanReach(url) THEN FromAnswer(answer) ELSE Failure("do", TRUE)

ConvertLIDToJID_TokenOptional(c, lid, apiToken, answer) ==
    IF ~IsLID(lid) THEN [jid |-> lid, err |-> "", called |-> FALSE]
    ELSE IF c.BaseURL = <<>> THEN Failure("url", FALSE)
    ELSE IF NewRequestFails(ParseLIDURL(c)) THEN Failure("request", FALSE)
    ELSE Do(ParseLIDURL(c), answer)

ConvertLIDToJID(c, lid, apiToken, answer) ==
    IF ~IsLID(lid) THEN [jid |-> lid, err |-> "", called |-> FALSE]
    ELSE IF c.BaseURL = <<>> THEN Failure("url", FALSE)
    ELSE IF apiToken = <<>> THEN Failure("token", FALSE)
    ELSE IF NewRequestFails(ParseLIDURL(c)) THEN Failure("request", FALSE)
    ELSE Do(ParseLIDURL(c), answer)

\* ---- DetectAndConvertIDs ----
Fields == {"Chat", "Sender", "SenderAlt", "RecipientAlt"}

\* one field of Info: the identifier read, its JID, whether ConvertLIDToJID
\* was called for it and whether the conversion was recorded
NoField == [id |-> <<>>, jid |-> <<>>, attempted |-> FALSE, converted |-> FALSE]

FieldOutcome_RecordsFailure(id, r, keep) ==
    IF id = <<>> THEN NoField
    ELSE IF ~IsLID(id)
    THEN [id |-> id, jid |-> IF keep THEN id ELSE <<>>,
          attempted |-> FALSE, converted |-> FALSE]
    ELSE [id |-> id, jid |-> r.jid, attempted |-> TRUE, converted |-> TRUE]

\* keep: Chat and Sender keep an identifier that is no LID as their JID
FieldOutcome(id, r, keep) ==
    IF id = <<>> THEN NoField
    ELSE IF ~IsLID(id)
    THEN [id |-> id, jid |-> IF keep THEN id ELSE <<>>,
          attempted |-> FALSE, converted |-> FALSE]
    ELSE IF r.err = ""
    THEN [id |-> id, jid |-> r.jid, attempted |-> TRUE, converted |-> TRUE]
    ELSE [id |-> id, jid |-> <<>>, attempted |-> TRUE, converted |-> FALSE]

ConvertField(c, id, apiToken, answer, keep) ==
    FieldOutcome(id, ConvertLIDToJID(c, id, apiToken, answer), keep)

\* the JID of the field itself, else the converted alternative
Fallback(own, alt) ==
    IF own.jid # <<>> THEN own.jid
    ELSE IF alt.converted THEN alt.jid
    ELSE <<>>

GroupChat(chatJID) ==
    /\ chatJID # <<>>
    /\ Contains(ToLower(chatJID), kGUs) \/ Contains(ToLower(chatJID), kBroadcast)

\* fmt.Sprintf("%s -> %s", id, jid)
Conversion(name, f) == [field |-> name, text |-> f.id \o <<" -> ">> \o f.jid]

ConvertedEventInfo(fs, chatJID, senderJID, flag) ==
    [err             |-> FALSE,
     Chat            |-> fs.Chat.id,
     ChatJID         |-> chatJID,
     Sender          |-> fs.Sender.id,
     SenderJID       |-> senderJID,
     SenderAlt       |-> fs.SenderAlt.id,
     SenderAltJID    |-> fs.SenderAlt.jid,
     RecipientAlt    |-> fs.RecipientAlt.id,
     RecipientAltJID |-> fs.RecipientAlt.jid,
     IsGroup         |-> flag \/ GroupChat(chatJID),
     Conversions     |-> {Conversion(n, fs[n]) : n \in {x \in Fields : fs[x].converted}},
     attempted       |-> {n \in Fields : fs[n].attempted}]

Converted(fs, flag) ==
    ConvertedEventInfo(fs, Fallback(fs.Chat, fs.RecipientAlt),
                       Fallback(fs.Sender, fs.SenderAlt), flag)

InfoFields(c, info, apiToken, answers) ==
    [Chat         |-> ConvertField(c, StringAt(info, kChat), apiToken,
                                   answers.Chat, TRUE),
     Sender       |-> ConvertField(c, StringAt(info, kSender), apiToken,
                                   answers.Sender, TRUE),
     SenderAlt    |-> ConvertField(c, StringAt(info, kSenderAlt), apiToken,
                                   answers.SenderAlt, FALSE),
     RecipientAlt |-> ConvertField(c, StringAt(info, kRecipientAlt), apiToken,
                                   answers.RecipientAlt, FALSE)]

DetectError == [err |-> TRUE]

DetectEnvelope(c, envelope, apiToken, answers) ==
    IF ~envelope.ok THEN DetectError
    ELSE Converted(InfoFields(c, envelope.Info, apiToken, answers),
                   IsGroupFlag(envelope.Info))

DetectAndConvertIDs(c, jsonDataStr, apiToken, answers) ==
    DetectEnvelope(c, Envelopes[jsonDataStr], apiToken, answers)

ConvertCall(lid, apiToken, said) ==
    /\ call.fn = "none"
    /\ call' = [fn    |-> "ConvertLIDToJID",
                lid   |-> lid,
                token |-> apiToken,
                said  |-> said,
                out   |-> ConvertLIDToJID(converter, lid, apiToken, said.answer)]
    /\ UNCHANGED <<now, items, serviceVars, cacheVars, converter, alertVars>>

DetectCall(event, apiToken, said) ==
    /\ call.fn = "none"
    /\ call' = [fn    |-> "DetectAndConvertIDs",
                event |-> event,
                token |-> apiToken,
                said  |-> said,
                out   |-> DetectAndConvertIDs(converter, event.payload, apiToken,
                                              [n \in Fields |-> said[n].answer])]
    /\ UNCHANGED <<now, items, serviceVars, cacheVars, converter, alertVars>>

(***************************************************************************)
(* Specifications                                                          *)
(***************************************************************************)
\* the cache as main leaves it: nobody holds the mutex, the janitor waits
\* in its select, stopChan is open
\* package notify before the first alert
NotifyAtStart ==
    /\ alerts = <<>>
    /\ last = [k \in {} |-> 0]
    /\ notifyMu = 0
    /\ sent = {}

CacheAtStart ==
    /\ mu = Unlocked
    /\ callers = [g \in Callers |-> IdleCaller]
    /\ janitor = AtSelect
    /\ stopChan = FALSE
    /\ tickerC = FALSE
    /\ calls = 0

NoEnv == [n \in EnvNames |-> <<>>]
\* CLIENT_a_b=" http://env/e"
EnvLower == [NoEnv EXCEPT ![LowerName(<<"a","-","B">>)] = <<" ">> \o urlEnv]
\* CLIENT_a_b=" " and CLIENT_A_B="http://env/e\n"
EnvUpper == [NoEnv EXCEPT ![LowerName(<<"a","-","B">>)] = <<" ">>,
                          ![UpperName(<<"a","-","B">>)] = urlEnv \o <<"\n">>]

EmptyStore == [s \in Secrets |-> NoRow]
StoreOf(row) == [EmptyStore EXCEPT ![<<"7">>] = row]

InitWith(stores, envs, tokens) ==
    /\ now = 0
    /\ items = [s \in Secrets |-> NoEntry]
    /\ store \in stores
    /\ env \in envs
    /\ config \in {Config(t, NoSlack) : t \in tokens}
    /\ req = [r \in Slots |-> IdleRequest]
    /\ arrivals = 0
    /\ returned = [s \in Secrets |-> {}]
    /\ CacheAtStart
    /\ converter = [BaseURL |-> <<>>]
    /\ call = NoCall
    /\ NotifyAtStart

\* Concurrent requests for one client, the clients API, the purge, the
\* clock and the janitor.
Init == InitWith({EmptyStore}, {NoEnv, EnvUpper}, {<<"k">>})

Next ==
    \/ \E r \in Slots, in \in SmallInputs : WebhookReceive(r, <<"a","-","B">>, in)
    \/ \E r \in Slots : ResolveGetCheck(r)
    \/ \E r \in Slots : ResolveStore(r)
    \/ \E r \in Slots : ResolveSet(r)
    \/ \E r \in Slots : ForwardDo(r, {Created})
    \/ AdminPurge(<<"a","-","B">>, <<"k">>)
    \/ \E url \in {urlX, urlY} : CreateClient(<<"a","-","B">>, <<"n">>, url)
    \/ \E url \in {urlX, urlY}, a \in BOOLEAN :
          UpdateClient(<<"a","-","B">>, <<"n">>, url, a)
    \/ Tick
    \/ JanitorSweep

Spec == Init /\ [][Next]_vars

\* The first request after a start in which client 7 is absent, active,
\* inactive or has a URL that cannot be parsed, and its route is not
\* cached, cached and still valid, or cached and expired: every fixture
\* under every path parameter, every generated request for client 7.
Params == Secrets \cup {<<" ">>, <<"7", " ">>}

Stores == {StoreOf(NoRow), StoreOf(Row(urlX, TRUE)), StoreOf(Row(urlX, FALSE)),
           StoreOf(Row(urlBad, TRUE))}

\* an entry Set wrote at time 0 from an active record
CachedAtStart ==
    [[s \in Secrets |-> NoEntry] EXCEPT
        ![<<"7">>] = SetEntry(urlY, 0, [kind |-> "store", url |-> urlY,
                                        active |-> TRUE])]

InitPipeline ==
    /\ \/ now = 0 /\ items = [s \in Secrets |-> NoEntry]
       \/ now \in {TTL, TTL + 1} /\ items = CachedAtStart
    /\ store \in Stores
    /\ env = EnvLower
    /\ config = Config(<<"k">>, NoSlack)
    /\ req = [r \in Slots |-> IdleRequest]
    /\ arrivals = 0
    /\ returned = [s \in Secrets |-> {}]
    /\ CacheAtStart
    /\ converter = [BaseURL |-> <<>>]
    /\ call = NoCall
    /\ NotifyAtStart

NextPipeline ==
    \/ \E param \in Params, in \in PipelineInputs :
          arrivals = 0 /\ WebhookReceive(1, param, in)
    \/ \E in \in ExtractInputs : arrivals = 0 /\ WebhookReceive(1, <<"7">>, in)
    \/ ResolveGetCheck(1)
    \/ ResolveStore(1)
    \/ ResolveSet(1)
    \/ ForwardDo(1, DestResponses)

SpecPipeline == InitPipeline /\ [][NextPipeline]_vars

\* The cache on its own, empty or holding one entry: two goroutines calling
\* Get, Set and Delete on two keys while the clock advances, the ticker
\* fires and the janitor sweeps.
\* an entry a caller set at time 0
SetAtStart ==
    [[s \in Secrets |-> NoEntry] EXCEPT
        ![<<"7">>] = SetEntry(urlX, 0, CallerSource(urlX))]

InitCache ==
    /\ now = 0
    /\ items \in {[s \in Secrets |-> NoEntry], SetAtStart}
    /\ store = EmptyStore
    /\ env = NoEnv
    /\ config = Config(<<"k">>, NoSlack)
    /\ req = [r \in Slots |-> IdleRequest]
    /\ arrivals = 0
    /\ returned = [s \in Secrets |-> {}]
    /\ CacheAtStart
    /\ converter = [BaseURL |-> <<>>]
    /\ call = NoCall
    /\ NotifyAtStart

\* what each goroutine hands to Set
ValueOf == [g \in Callers |-> IF g = "g1" THEN urlX ELSE urlY]

NextCache ==
    \/ \E g \in Callers, key \in Secrets : GetRLock(g, key)
    \/ \E g \in Callers : GetRead(g)
    \/ \E g \in Callers : GetReturn(g)
    \/ \E g \in Callers, key \in Secrets : SetLock(g, key, ValueOf[g])
    \/ \E g \in Callers : SetValue(g)
    \/ \E g \in Callers : SetExpiry(g)
    \/ \E g \in Callers, key \in Secrets : DeleteLock(g, key)
    \/ \E g \in Callers : DeleteRemove(g)
    \/ TickerFire
    \/ JanitorTick
    \/ JanitorLock
    \/ \E k \in Secrets : JanitorVisit(k)
    \/ JanitorUnlock
    \/ Tick

SpecCache == InitCache /\ [][NextCache]_vars

\* The janitor next to a goroutine that calls Set, with StopJanitor called
\* at some time.  The goroutines are scheduled: one that holds the mutex
\* goes on to release it.  The mutex hands itself to a goroutine that keeps
\* waiting for it, and a select with several ready cases picks each of them
\* in the long run, hence the strong fairness of JanitorLock and
\* JanitorStop.
NextJanitor ==
    \/ \E key \in Secrets : SetLock("g1", key, ValueOf["g1"])
    \/ \E g \in Callers : SetValue(g)
    \/ \E g \in Callers : SetExpiry(g)
    \/ TickerFire
    \/ JanitorTick
    \/ JanitorLock
    \/ \E k \in Secrets : JanitorVisit(k)
    \/ JanitorUnlock
    \/ StopJanitor
    \/ JanitorStop
    \/ Tick

Releases(g) == SetValue(g) \/ SetExpiry(g)

SpecJanitor ==
    /\ InitCache
    /\ [][NextJanitor]_vars
    /\ \A g \in Callers : WF_vars(Releases(g))
    /\ WF_vars(JanitorTick)
    /\ SF_vars(JanitorLock)
    /\ WF_vars((\E k \in Secrets : JanitorVisit(k)) \/ JanitorUnlock)
    /\ SF_vars(JanitorStop)

InitConvert ==
    /\ now = 0
    /\ items = [s \in Secrets |-> NoEntry]
    /\ store = EmptyStore
    /\ env = NoEnv
    /\ config = Config(<<"k">>, NoSlack)
    /\ req = [r \in Slots |-> IdleRequest]
    /\ arrivals = 0
    /\ returned = [s \in Secrets |-> {}]
    /\ CacheAtStart
    /\ converter \in Converters
    /\ call = NoCall
    /\ NotifyAtStart

NextConvert ==
    \/ \E lid \in Lids, apiToken \in Tokens, said \in Replies :
          ConvertCall(lid, apiToken, said)
    \/ \E event \in DetectEvents, apiToken \in Tokens,
          said \in [Fields -> FieldReplies] :
          DetectCall(event, apiToken, said)

SpecConvert == InitConvert /\ [][NextConvert]_vars

\* Requests for a client the table does not hold, or with a blank path
\* parameter, with an alert destination configured: a Slack webhook, or a
\* bot token and a channel.
urlSlack == <<"https", ":", "//hooks.slack.com/T">>
slackHook == [url |-> <<" ">> \o urlSlack, token |-> <<>>, channel |-> <<>>]
slackBot  == [url |-> <<" ">>, token |-> <<"t">>, channel |-> <<"C","1">>]

InitAlert ==
    /\ now = 0
    /\ items = [s \in Secrets |-> NoEntry]
    /\ store = EmptyStore
    /\ env = NoEnv
    /\ config \in {Config(<<"k">>, slack) : slack \in {slackHook, slackBot}}
    /\ req = [r \in Slots |-> IdleRequest]
    /\ arrivals = 0
    /\ returned = [s \in Secrets |-> {}]
    /\ CacheAtStart
    /\ converter = [BaseURL |-> <<>>]
    /\ call = NoCall
    /\ NotifyAtStart

NextAlert ==
    \/ \E r \in Slots, param \in {<<"a","-","B">>, <<" ">>}, in \in SmallInputs :
          WebhookReceive(r, param, in)
    \/ \E r \in Slots : ResolveGetCheck(r)
    \/ \E r \in Slots : ResolveStore(r)
    \/ \E i \in 1..MaxArrivals : PostSlackCheck(i)
    \/ \E i \in 1..MaxArrivals : PostSlackRecord(i)
    \/ \E i \in 1..MaxArrivals, outcome \in SlackOutcomes : PostSlackDo(i, outcome)
    \/ Tick

SpecAlert == InitAlert /\ [][NextAlert]_vars

(***************************************************************************)
(* Properties                                                              *)
(***************************************************************************)
Sourced(source, hit) == [src |-> source, hit |-> hit]

StoreMisses == {"absent", "inactive", "error"}

\* the sources a call of Resolve may have consulted so far, in order
OrderedLogs ==
    { <<>>,
      <<Sourced("cache", "hit")>>,
      <<Sourced("cache", "miss"), Sourced("env", "hit")>>,
      <<Sourced("cache", "miss"), Sourced("env", "miss")>> }
    \cup { <<Sourced("cache", "miss"), Sourced("env", "miss"), Sourced("store", o)>> :
             o \in StoreMisses \cup {"hit"} }

\* the step in which request r returns from Resolve with the ENV value
ReturnsFromEnv(r) ==
    /\ req[r].found = "pending"
    /\ req'[r].found = "yes"
    /\ req'[r].log = <<Sourced("cache", "miss"), Sourced("env", "hit")>>

C1Step ==
    \A r \in Slots :
       /\ req'[r].log \in OrderedLogs
       /\ ReturnsFromEnv(r) =>
             /\ items'[req'[r].secret].ok
             /\ items'[req'[r].secret].value = req'[r].url
             /\ items'[req'[r].secret].expiresAt = now + TTL
             /\ req'[r].url # <<>>
             /\ req'[r].url =
                  IF TrimSpace(env[LowerName(req'[r].secret)]) # <<>>
                  THEN TrimSpace(env[LowerName(req'[r].secret)])
                  ELSE TrimSpace(env[UpperName(req'[r].secret)])

\* C1: Resolve consults cache, then ENV, then the store, and stops at the
\* first hit: ENV is read only after a cache miss, the store only after a
\* cache miss and an ENV miss, and an ENV hit is written into the cache
\* under the secret in the step that returns it.
C1_ResolveOrder == [][C1Step]_vars

C1_Witness ==
    \E r \in Slots :
       /\ req[r].found = "yes"
       /\ req[r].log = <<Sourced("cache", "miss"), Sourced("env", "hit")>>
       /\ items[req[r].secret].value = urlEnv
       /\ req[r].url = urlEnv

\* C2: once a call of Resolve has returned D for a secret, every later call
\* for that secret that checks the cache before D's entry expires, with no
\* purge in between, returns D as well.
C2_Idempotent ==
    \A r \in Slots :
       req[r].found = "yes" => \A d \in req[r].must : d = req[r].url

\* the request in slot r found no cache entry, no ENV value and no usable record
ObservedUnresolvable(q) ==
    /\ Len(q.log) = 3
    /\ q.log[1] = Sourced("cache", "miss")
    /\ q.log[2] = Sourced("env", "miss")
    /\ q.log[3].src = "store"
    /\ q.log[3].hit \in StoreMisses

NotFound404 == JSONResponse(404, "{\"error\":\"Cliente não encontrado\"}")

Unresolvable(s) ==
    /\ s \in Secrets
    /\ ~GetFound(items[s], now)
    /\ TrimSpace(env[LowerName(s)]) = <<>>
    /\ TrimSpace(env[UpperName(s)]) = <<>>
    /\ ~(store[s].present /\ store[s].IsActive)

C4_EmptyPayload400 ==
    \A r \in Slots :
       (req[r].pc # "idle" /\ TrimSpace(req[r].payload) = <<>>) =>
          /\ req[r].pc = "done"
          /\ req[r].resp.status = 400
          /\ req[r].posts = <<>>

C4_Witness ==
    \E r \in Slots :
       /\ req[r].pc = "done"
       /\ req[r].payload = <<" ">>
       /\ req[r].secret = <<"7">>
       /\ store[<<"7">>] = Row(urlX, TRUE)
       /\ req[r].resp.status = 400

\* C5: a destination Resolve reports as found is not empty, and every
\* value in the cache is a non-empty URL read from the environment or from
\* a record that was active when it was read.
C5_UsableRoute ==
    /\ \A r \in Slots : req[r].found = "yes" => req[r].url # <<>>
    /\ \A s \in Secrets :
          items[s].ok =>
             /\ items[s].value # <<>>
             /\ items[s].src.url = items[s].value
             /\ \/ /\ items[s].src.kind = "env"
                   /\ items[s].value \in {TrimSpace(env[LowerName(s)]),
                                          TrimSpace(env[UpperName(s)])}
                \/ /\ items[s].src.kind = "store"
                   /\ items[s].src.active

C5_Witness ==
    \E r \in Slots :
       /\ req[r].found = "yes"
       /\ req[r].log[1] = Sourced("cache", "hit")
       /\ items[req[r].secret].src.kind = "store"
       /\ store[req[r].secret] = Row(urlY, FALSE)

Ignored200 == JSONResponse(200, "{\"status\":\"ignored_group_message\"}")

IsIgnored(q) == q.pc = "done" /\ q.resp = Ignored200 /\ q.posts = <<>>

\* C6: a request with a resolvable secret whose event is a group or
\* broadcast message under the raw filter or under ExtractEventInfo is not
\* forwarded and is answered 200 ignored_group_message.
C6_GroupNeverForwarded ==
    \A r \in Slots :
       req[r].found = "yes" =>
          \/ IsIgnored(req[r])
          \/ ~(req[r].class.isGroup \/ ExtractEventInfo(req[r].payload).isGroup)

\* C7 (amended): a payload that holds @g.us as consecutive characters, in
\* any case, is classified isGroup with the reason filter_raw_match,
\* valid JSON or not.
C7_ContiguousGUs ==
    \A r \in Slots :
       (req[r].found = "yes" /\ Contains(ToLower(req[r].payload), kGUs)) =>
          /\ req[r].class.isGroup
          /\ req[r].class.reason = "filter_raw_match"

C7_Witness ==
    \E r \in Slots :
       /\ req[r].found = "yes"
       /\ req[r].payload = <<"h","i"," ","5">> \o ToUpper(kGUs)
       /\ req[r].class.isGroup
       /\ req[r].class.reason # ""

\* C7: a payload that holds @g.us in any case, be it only once white space
\* is removed, is classified isGroup by one of the two layers.
C7_CollapsedGUs ==
    \A r \in Slots :
       req[r].found = "yes" =>
          \/ req[r].class.isGroup /\ req[r].class.reason # ""
          \/ ~Contains(DropSpace(ToLower(req[r].payload)), kGUs)
          \/ ExtractEventInfo(req[r].payload).isGroup

\* C8: an outbound POST carries the body as it was received and the
\* inbound Content-Type, application/x-www-form-urlencoded when that was
\* empty, and a request makes at most one.
C8_RawBodyForwarded ==
    \A r \in Slots :
       /\ Len(req[r].posts) <= 1
       /\ \A i \in DOMAIN req[r].posts :
             /\ req[r].posts[i].body = req[r].input.body
             /\ req[r].posts[i].contentType =
                  IF req[r].input.contentType = <<>> THEN ctForm
                  ELSE req[r].input.contentType

C8_Witness ==
    \E r \in Slots :
       /\ Len(req[r].posts) = 1
       /\ req[r].input.contentType = <<>>
       /\ req[r].posts[1].contentType = ctForm
       /\ req[r].posts[1].body = <<"r","a","w">>
       /\ req[r].payload # req[r].input.body

\* C9: a request that passed the filter is answered 500 when the outbound
\* request cannot be built, 502 when the call fails in transport, else
\* with the destination's status, Content-Type and body; the call is made
\* once.
C9_RelayOutcome ==
    \A r \in Slots :
       (req[r].pc = "done" /\ req[r].found = "yes" /\ ~req[r].class.isGroup) =>
          IF NewRequestFails(req[r].url)
          THEN req[r].resp.status = 500 /\ req[r].posts = <<>>
          ELSE /\ Len(req[r].posts) = 1
               /\ req[r].posts[1].url = req[r].url
               /\ IF req[r].upstream.kind = "error"
                  THEN req[r].resp.status = 502
                  ELSE req[r].resp = req[r].upstream.resp

C9_Witness ==
    \E r \in Slots :
       /\ req[r].pc = "done"
       /\ req[r].upstream.kind = "error"
       /\ req[r].resp.status = 502
       /\ Len(req[r].posts) = 1

\* the request in slot r carries the body of case c
HoldsCase(q, c) ==
    /\ q.pc # "idle"
    /\ q.secret # <<>>
    /\ ~q.input.readErr
    /\ q.input.contentType = ctJSON
    /\ q.input.body = c.body

\* C10 (amended): from an application/json body with the top-level string
\* field jsonData = E, E not blank, extraction returns exactly E, with or
\* without a body field.
C10_NonBlankJsonData ==
    \A r \in Slots : \A c \in JsonDataCases :
       (HoldsCase(req[r], c) /\ TrimSpace(c.E) # <<>>) => req[r].payload = c.E

C10_Witness ==
    \E r \in Slots :
       /\ HoldsCase(req[r], [E |-> <<"\\", "\"">>,
                             body |-> Obj2(kBody, bodyWithKey, kJsonData,
                                           Quote(<<"\\", "\"">>))])
       /\ req[r].payload = <<"\\", "\"">>

\* C10: from an application/json body with the top-level string field
\* jsonData = E extraction returns exactly E, for every E.
C10_AnyJsonData ==
    \A r \in Slots : \A c \in JsonDataCases :
       HoldsCase(req[r], c) => req[r].payload = c.E

\* the application/json bodies without jsonData whose body object holds the
\* key {"a":1}: alone, and next to an entry whose string value starts with {
BodyKeyCases ==
    { [key |-> keyJSON, body |-> Obj1(kBody, Obj1(keyJSON, Quote(<<"x">>)))],
      [key |-> keyJSON,
       body |-> Obj1(kBody, Obj2(keyJSON, Quote(<<"x">>), <<"k">>, Quote(evUser)))] }

\* C11: from an application/json body with no usable jsonData and a body
\* object that holds a key starting with { and ending with }, extraction
\* returns that key, whatever other entries body holds.
C11_BodyKeyReturned ==
    \A r \in Slots : \A c \in BodyKeyCases :
       HoldsCase(req[r], c) => req[r].payload = c.key

\* C12: Get returns the value and found exactly when the entry it read is
\* present and the time of its check is not after the entry's expiresAt,
\* and not-found otherwise; no step of Get changes the table, so an expired
\* entry is neither removed nor extended by a read.
C12Step ==
    \A g \in Callers :
       /\ (callers[g].pc = "idle" /\ callers'[g].pc = "get_read") =>
             items' = items
       /\ (callers[g].pc = "get_read" /\ callers'[g].pc = "get_check") =>
             /\ items' = items
             /\ callers'[g].e = items[callers[g].key]
       /\ (callers[g].pc = "get_check" /\ callers'[g].pc = "idle") =>
             /\ items' = items
             /\ callers'[g].ret =
                  IF callers[g].e.ok /\ now <= callers[g].e.expiresAt
                  THEN [value |-> callers[g].e.value, found |-> TRUE]
                  ELSE [value |-> <<>>, found |-> FALSE]

C12_GetReadsOnly == [][C12Step]_vars

\* a Get that found the entry expired, and the entry still in the table
C12_Witness ==
    \E g \in Callers :
       /\ callers[g].op = "Get" /\ callers[g].pc = "idle"
       /\ ~callers[g].ret.found
       /\ callers[g].e.ok
       /\ items[callers[g].key] = callers[g].e
       /\ now > callers[g].e.expiresAt

\* C13: Set(key, value) running at time t leaves (value, t + TTL) as the
\* entry of key, whatever was there before, with the one TTL of the cache,
\* and changes the entry of no other key.
C13Step ==
    \A g \in Callers :
       /\ (callers[g].pc \in {"set_value", "set_expiry"}
             /\ callers'[g].pc # callers[g].pc) =>
             \A k \in Secrets \ {callers[g].key} : items'[k] = items[k]
       /\ (callers[g].pc = "set_value" /\ callers'[g].pc = "set_expiry") =>
             /\ callers'[g].e.value = callers[g].value
             /\ callers'[g].e.expiresAt = now + TTL
       /\ (callers[g].pc = "set_expiry" /\ callers'[g].pc = "idle") =>
             /\ items'[callers[g].key].ok
             /\ items'[callers[g].key].value = callers[g].value
             /\ items'[callers[g].key].expiresAt = callers[g].e.expiresAt

C13_SetFreshWindow == [][C13Step]_vars

\* a Set that replaced an unexpired entry holding another value
C13_Witness ==
    \E g \in Callers :
       /\ callers[g].op = "Set" /\ callers[g].pc = "idle"
       /\ callers[g].old.ok
       /\ callers[g].old.value # callers[g].value
       /\ callers[g].e.expiresAt - TTL <= callers[g].old.expiresAt
       /\ callers[g].e.expiresAt > callers[g].old.expiresAt
       /\ items[callers[g].key] = callers[g].e

\* the goroutines between Lock and Unlock, and between RLock and RUnlock
Writing ==
    {g \in Callers : callers[g].pc \in {"set_value", "set_expiry", "delete"}}
    \cup (IF janitor.pc = "range" THEN {JanitorID} ELSE {})
Reading == {g \in Callers : callers[g].pc = "get_read"}

\* the entry is one that a Set stored whole, or no entry
Complete(e) == e = NoEntry \/ (e.ok /\ e.src = CallerSource(e.value))

\* C15: while a Set, a Delete or a sweep pass is changing the table no
\* other goroutine is reading or changing it; Gets may read together; what
\* a Get has read is the whole entry of one Set or no entry.
C15_WritersExclude ==
    /\ Cardinality(Writing) <= 1
    /\ Writing # {} => Reading = {}
    /\ \A g \in Callers :
          (callers[g].op = "Get" /\ callers[g].pc \in {"get_check", "idle"}) =>
             Complete(callers[g].e)

\* two Gets reading at the same time, one of them an entry a Set left
C15_Witness ==
    /\ Reading = Callers
    /\ \E k \in Secrets : items[k].ok

\* C14: a sweep pass deletes the entries whose expiresAt is before the
\* timestamp of the pass, all of them, and no other entry; the janitor
\* returns only on the stop signal, serves every tick until then, and
\* returns once the signal is given.
C14Step ==
    /\ (janitor.pc = "range" /\ janitor' # janitor) =>
          \A k \in Secrets :
             \/ items'[k] = items[k]
             \/ /\ items'[k] = NoEntry
                /\ items[k].ok
                /\ items[k].expiresAt < janitor.stamp
    /\ (janitor.pc = "range" /\ janitor'.pc = "select") =>
          \A k \in Secrets : items[k].ok => items[k].expiresAt >= janitor.stamp
    /\ (janitor.pc # "returned" /\ janitor'.pc = "returned") => stopChan

C14_JanitorSweeps ==
    /\ [][C14Step]_vars
    /\ tickerC ~> (~tickerC \/ janitor.pc = "returned")
    /\ stopChan ~> (janitor.pc = "returned")

\* the janitor has returned; its last pass deleted an expired entry and
\* kept one that had not expired
C14_Witness ==
    /\ janitor.pc = "returned"
    /\ janitor.removed # {}
    /\ \E k \in Secrets : items[k].ok /\ items[k].expiresAt >= janitor.stamp

\* C16: two requests for the same secret that both found no cache entry
\* and are inside Resolve together, each about to call Set and return,
\* hold the same destination.
C16_RaceSameDestination ==
    \A r1, r2 \in Slots :
       (/\ r1 # r2
        /\ req[r1].secret = req[r2].secret
        /\ req[r1].pc = "set" /\ ~req[r1].e.ok
        /\ req[r2].pc = "set" /\ ~req[r2].e.ok) =>
          req[r1].url = req[r2].url

\* ---- the converter ----
\* the identifiers of Lids that end in @lid, whatever the case of the letters
LegacyIds == {idLid, idLidUp}
Converting ==
    /\ call.fn = "ConvertLIDToJID"
    /\ call.lid \in LegacyIds
    /\ call.token # <<>>
    /\ converter.BaseURL # <<>>
\* no request can be made of the base URL, or no answer comes back
Unbuildable == converter.BaseURL = urlNoHost
Unanswered  == call.said.answer.kind = "error" \/ converter.BaseURL = urlFTP
Unchanged ==
    (call.fn = "ConvertLIDToJID" /\ call.lid \notin LegacyIds) =>
        call.out = [jid |-> call.lid, err |-> "", called |-> FALSE]

\* C17: ConvertLIDToJID returns an identifier that does not end in @lid
\* unchanged, with no error and without calling the API, whatever the token
\* and the base URL; for a legacy identifier with a token and a base URL it
\* returns an error exactly when the request cannot be built, the call fails
\* in transport, the HTTP status is not 200, the body is no response
\* document, or the status or data.success flag is not true, and otherwise
\* it returns the jid of the response.
C17_ConvertOutcome ==
    /\ Unchanged
    /\ Converting =>
          /\ call.out.err # "" <=>
                \/ Unbuildable
                \/ Unanswered
                \/ call.said.answer.status # 200
                \/ ~call.said.decodes
                \/ ~call.said.flags
          /\ call.out.err = "" =>
                call.out.jid = call.said.jid /\ call.out.called

\* a legacy identifier was converted: the API answered 200 with both flags
\* true and the call returned the jid of the answer
C17_Witness ==
    /\ Converting
    /\ call.lid = idLidUp
    /\ call.said = saidUser
    /\ call.out = [jid |-> jidUser, err |-> "", called |-> TRUE]

\* C17 as stated: for a legacy identifier with a token and a base URL the
\* call returns an error exactly when the call fails in transport, the HTTP
\* status is not 2xx, or a flag of the response is false (a base URL no
\* request can be made of counts as a failed call, a body that is no
\* response document as a false flag).
C17_ErrorOnlyOutside2xx ==
    /\ Unchanged
    /\ Converting =>
          /\ call.out.err # "" <=>
                \/ Unbuildable
                \/ Unanswered
                \/ call.said.answer.status \notin 200..299
                \/ ~call.said.flags
          /\ call.out.err = "" => call.out.jid = call.said.jid

TokenMissing == [jid |-> <<>>, err |-> "token", called |-> FALSE]

\* C18: for every legacy identifier, ConvertLIDToJID called with an empty
\* token on a converter whose base URL is not empty returns the
\* token-missing error and makes no network call; on a converter with an
\* empty base URL it returns the URL-not-configured error, also without a
\* network call.
C18_EmptyToken ==
    (/\ call.fn = "ConvertLIDToJID"
     /\ call.lid \in LegacyIds
     /\ call.token = <<>>) =>
        call.out = IF converter.BaseURL # <<>> THEN TokenMissing
                   ELSE [jid |-> <<>>, err |-> "url", called |-> FALSE]

\* a legacy identifier met an empty token on a converter with a base URL
C18_Witness ==
    /\ call.fn = "ConvertLIDToJID"
    /\ call.lid = idLid
    /\ call.token = <<>>
    /\ converter.BaseURL = urlAPI
    /\ call.out = TokenMissing

\* C18 as stated: with an empty token the call returns the token-missing
\* error without a network call whatever the converter's configuration is.
C18_EmptyTokenAnyConfiguration ==
    (/\ call.fn = "ConvertLIDToJID"
     /\ call.lid \in LegacyIds
     /\ call.token = <<>>) =>
        call.out = TokenMissing

Detecting == call.fn = "DetectAndConvertIDs"
LegacyFields == {n \in Fields : call.event.ids[n] \in LegacyIds}
\* the conversion of field n succeeds: the converter can call the API with
\* a token and the API names a jid
Converts(n) ==
    /\ n \in LegacyFields
    /\ call.token # <<>>
    /\ converter.BaseURL = urlAPI
    /\ call.said[n] # saidNothing
Recorded == {c.field : c \in call.out.Conversions}

\* C19: DetectAndConvertIDs returns an error exactly when the payload is no
\* event envelope; otherwise, whichever conversions fail, ConvertLIDToJID
\* is called for every field that holds a legacy identifier and for no
\* other, and Conversions names a field exactly when the conversion of its
\* legacy identifier succeeded.
C19_FieldFailuresContained ==
    Detecting =>
       /\ call.out.err <=> ~call.event.parses
       /\ ~call.out.err =>
             /\ call.out.attempted = LegacyFields
             /\ Recorded = {n \in Fields : Converts(n)}

\* all four fields held a legacy identifier; the conversions of Chat and
\* SenderAlt failed, those of Sender and RecipientAlt were recorded
C19_Witness ==
    /\ Detecting
    /\ ~call.out.err
    /\ LegacyFields = Fields
    /\ call.said["Chat"] = saidNothing
    /\ call.out.attempted = Fields
    /\ Recorded = {"Sender", "RecipientAlt"}

\* C20: for an event envelope that holds no legacy identifier, the IsGroup
\* of DetectAndConvertIDs is the isGroup of ExtractEventInfo.
C20_SameGroupFlag ==
    (Detecting /\ call.event.parses /\ LegacyFields = {}) =>
        call.out.IsGroup = ExtractEventInfo(call.event.payload).isGroup

\* ---- purge against a Resolve in flight ----
\* request r read its destination from the clients table before a purge of
\* its secret completed, has not yet called Set, and the table no longer
\* gives that destination
HoldsPrePurge(r) ==
    /\ req[r].pc = "set"
    /\ req[r].prepurge
    /\ req[r].src.kind = "store"
    /\ store[req[r].secret] # Row(req[r].url, TRUE)

\* C23: a Resolve that read the old record before a purge of its secret
\* completed and calls Set after it does not leave the destination it read
\* in the cache, where a later Resolve would return it.
C23Step ==
    \A r \in Slots :
       (HoldsPrePurge(r) /\ req'[r].pc # "set") =>
           ~(/\ items'[req[r].secret].ok
             /\ items'[req[r].secret].value = req[r].url)

C23_NoPrePurgeDestination == [][C23Step]_vars

\* ---- alerts ----
Alerts == DOMAIN alerts
SameText(i, j) == i # j /\ alerts[i].text = alerts[j].text
Apart(t1, t2) == t1 - t2 >= Minute \/ t2 - t1 >= Minute

\* C21: of the alert calls that carry the same text, two that are handed
\* to the HTTP client recorded their last-sent times at least one minute
\* apart; no two of them are between the test and the record of the
\* last-sent time together; a call the test turned away has returned nil
\* and has handed nothing to the HTTP client.
C21_OneDeliveryPerMinute ==
    /\ \A x, y \in sent :
          (x.by # y.by /\ x.text = y.text) => Apart(x.at, y.at)
    /\ \A i, j \in Alerts :
          SameText(i, j) => ~(alerts[i].pc = "record" /\ alerts[j].pc = "record")
    /\ \A i \in Alerts :
          alerts[i].recent =>
             /\ alerts[i].pc = "done"
             /\ alerts[i].ret = "nil"
             /\ \A x \in sent : x.by # i

\* three alerts with one text: the first was delivered, the second was
\* turned away inside the minute, the third was delivered a minute later
C21_Witness ==
    \E i, j, k \in Alerts :
       /\ SameText(i, j) /\ SameText(j, k) /\ SameText(i, k)
       /\ alerts[j].recent /\ alerts[j].ret = "nil"
       /\ \E x, y \in sent :
             x.by = i /\ y.by = k /\ y.at - x.at >= Minute

\* the handler's own error responses: a status of the destination is
\* relayed, not an error of the request
FatalError(q) ==
    /\ q.pc = "done"
    /\ q.upstream.kind # "response"
    /\ q.resp.status \in {400, 404, 500, 502}

\* C22: with an alert destination configured, every webhook request that
\* ended in a fatal error response has started an alert.
C22_FatalErrorAlerts ==
    \A r \in Slots :
       FatalError(req[r]) =>
          /\ req[r].alerted # ""
          /\ \E i \in Alerts : alerts[i].text = Message(req[r])

====
